---- MODULE Spec2Model ----
(***************************************************************************)
(* A model of the MCP-A2A bridge: the file-backed registry of A2A servers  *)
(* (src/src/registry.ts) and the bridge wiring that turns every skill of a *)
(* registered agent into an MCP tool (index.ts, src/unnamed/part_001,      *)
(* lines 156-610).                                                         *)
(*                                                                         *)
(* Strings are sequences of one-character strings, so that slugify is      *)
(* computed character by character as the regular expressions do.  URLs    *)
(* are opaque atoms: the code only compares them for equality.             *)
(***************************************************************************)
EXTENDS Integers, Sequences, FiniteSets, TLC

\* ------------------------------------------------------------------------
\* Characters and strings
\* ------------------------------------------------------------------------

UpperChars ==
  <<"A","B","C","D","E","F","G","H","I","J","K","L","M",
    "N","O","P","Q","R","S","T","U","V","W","X","Y","Z">>

LowerChars ==
  <<"a","b","c","d","e","f","g","h","i","j","k","l","m",
    "n","o","p","q","r","s","t","u","v","w","x","y","z">>

DigitChars == {"0","1","2","3","4","5","6","7","8","9"}

Range(f) == {f[i] : i \in DOMAIN f}

UpperSet == Range(UpperChars)

\* \s of the regular expressions
Spaces == {" ", "\t", "\n"}

IsSpace(c) == c \in Spaces

\* \w of the regular expressions: [A-Za-z0-9_]
WordChars == UpperSet \cup Range(LowerChars) \cup DigitChars \cup {"_"}

IsWordChar(c) == c \in WordChars

\* [\w-]: what .replace(/[^\w-]+/g, '') keeps
IsSlugChar(c) == IsWordChar(c) \/ c = "-"

Hyphens == {"-"}

NotDropped(c) == c # ""

\* the first and the last position of s whose character is not in the class
FirstNot(s, class) ==
  CHOOSE i \in 1..Len(s) : s[i] \notin class /\ \A j \in 1..(i - 1) : s[j] \in class

LastNot(s, class) ==
  CHOOSE i \in 1..Len(s) : s[i] \notin class /\ \A j \in (i + 1)..Len(s) : s[j] \in class

AllIn(s, class) == \A i \in 1..Len(s) : s[i] \in class

LowerOf == [c \in UpperSet |-> LowerChars[CHOOSE i \in 1..26 : UpperChars[i] = c]]

\* String.prototype.toLowerCase, one character
toLowerCaseChar(c) == IF c \in UpperSet THEN LowerOf[c] ELSE c

toLowerCase(s) == [i \in 1..Len(s) |-> toLowerCaseChar(s[i])]

\* String.prototype.trim
trim(s) ==
  IF AllIn(s, Spaces) THEN <<>>
  ELSE SubSeq(s, FirstNot(s, Spaces), LastNot(s, Spaces))

\* String.prototype.substring(0, n)
substring0(s, n) == SubSeq(s, 1, IF n < Len(s) THEN n ELSE Len(s))

\* .replace(/\s+/g, '-'): every maximal run of whitespace becomes one hyphen
ReplaceSpaceRuns(s) ==
  LET marked == [i \in 1..Len(s) |->
                   IF IsSpace(s[i])
                   THEN (IF i > 1 /\ IsSpace(s[i-1]) THEN "" ELSE "-")
                   ELSE s[i]]
  IN  SelectSeq(marked, NotDropped)

\* .replace(/[^\w-]+/g, '')
RemoveNonWord(s) == SelectSeq(s, IsSlugChar)

\* .replace(/--+/g, '-'): every maximal run of hyphens becomes one hyphen
CollapseHyphens(s) ==
  LET marked == [i \in 1..Len(s) |->
                   IF s[i] = "-" /\ i > 1 /\ s[i-1] = "-" THEN "" ELSE s[i]]
  IN  SelectSeq(marked, NotDropped)

\* .replace(/^-+/, '')
TrimLeadingHyphens(s) ==
  IF AllIn(s, Hyphens) THEN <<>> ELSE SubSeq(s, FirstNot(s, Hyphens), Len(s))

TrimTrailingHyphensKeeps(s) == s

\* .replace(/-+$/, '')
TrimTrailingHyphens(s) ==
  IF AllIn(s, Hyphens) THEN <<>> ELSE SubSeq(s, 1, LastNot(s, Hyphens))

\* The chain of replacements shared by both slugify helpers
SlugChain(text) ==
  TrimTrailingHyphens(TrimLeadingHyphens(CollapseHyphens(
    RemoveNonWord(ReplaceSpaceRuns(trim(toLowerCase(text)))))))

MAX_SERVER_ID_SLUG_LENGTH == 20

slugifyUncut(text, maxLength) == IF text = <<>> THEN <<>> ELSE SlugChain(text)

\* registry.ts slugify(text, maxLength); maxLength 0 stands for a falsy
\* maxLength (0 or omitted), which the code's `if (maxLength && ...)` skips
slugify(text, maxLength) ==
  IF text = <<>> THEN <<>>
  ELSE LET slug == SlugChain(text)
       IN  IF maxLength # 0 /\ Len(slug) > maxLength
           THEN TrimTrailingHyphens(substring0(slug, maxLength))
           ELSE slug

\* index.ts slugify(text): the same chain without a length bound
slugifyTool(text) == IF text = <<>> THEN <<>> ELSE SlugChain(text)

\* ------------------------------------------------------------------------
\* JavaScript values, agent cards and record files
\* ------------------------------------------------------------------------

\* A JSON value as the code sees it: its typeof tag and, for a string, its
\* characters, for an array, its items.
Undef == [t |-> "undefined", v |-> <<>>]

Str(s) == [t |-> "string", v |-> s]

Arr(a) == [t |-> "array", v |-> a]

\* a non-null object whose content the code never looks into
Obj == [t |-> "object", v |-> <<>>]

\* JavaScript truthiness: undefined and '' are falsy, the rest above is truthy
Truthy(x) == IF x.t = "undefined" THEN FALSE
             ELSE IF x.t = "string" THEN x.v # <<>>
             ELSE TRUE

\* typeof x === 'string' && !x.trim()
IsBlankString(x) == x.t = "string" /\ trim(x.v) = <<>>

\* interface AgentCard: the fields register reads
AgentCard(id, name, url, version, capabilities, skills) ==
  [id |-> id, name |-> name, url |-> url, version |-> version,
   capabilities |-> capabilities, skills |-> skills]

\* interface RegisteredServer
RegisteredServer(id, registrationUrl, card, addedAt) ==
  [id |-> id, registrationUrl |-> registrationUrl, card |-> card, addedAt |-> addedAt]

\* An absent result: `undefined` where a RegisteredServer is expected
NoServer == [t |-> "undefined", v |-> <<>>]

Server(r) == [t |-> "server", v |-> r]

\* JSON.stringify of an object given as its <<key, value>> properties in
\* insertion order: a property whose value is undefined is left out
IsDefinedProperty(p) == p[2].t # "undefined"

JSONstringifyCard(card) ==
  SelectSeq(<< <<"id", card.id>>, <<"name", card.name>>, <<"url", card.url>>,
               <<"version", card.version>>, <<"capabilities", card.capabilities>>,
               <<"skills", card.skills>> >>, IsDefinedProperty)

JSONstringifyNoTime(entry) ==
  << <<"id", entry.id>>, <<"registrationUrl", entry.registrationUrl>>,
     <<"card", JSONstringifyCard(entry.card)>>, <<"addedAt", 0>> >>

\* JSON.stringify(entry, null, 2): the text of a record file
JSONstringify(entry) ==
  << <<"id", entry.id>>, <<"registrationUrl", entry.registrationUrl>>,
     <<"card", JSONstringifyCard(entry.card)>>, <<"addedAt", entry.addedAt>> >>

HasProperty(doc, key) == \E i \in 1..Len(doc) : doc[i][1] = key

Property(doc, key) == doc[CHOOSE i \in 1..Len(doc) : doc[i][1] = key][2]

\* a card property that the text does not hold reads as undefined
CardProperty(doc, key) == IF HasProperty(doc, key) THEN Property(doc, key) ELSE Undef

JSONparseCard(doc) ==
  AgentCard(CardProperty(doc, "id"), CardProperty(doc, "name"), CardProperty(doc, "url"),
            CardProperty(doc, "version"), CardProperty(doc, "capabilities"),
            CardProperty(doc, "skills"))

\* JSON.parse(raw) as RegisteredServer
JSONparse(doc) ==
  RegisteredServer(Property(doc, "id"), Property(doc, "registrationUrl"),
                   JSONparseCard(Property(doc, "card")), Property(doc, "addedAt"))

\* A file of the directory: well-formed JSON text or not
JsonFile(doc) == [json |-> TRUE, body |-> doc]

\* ------------------------------------------------------------------------
\* The strings, cards and URLs of the model
\* ------------------------------------------------------------------------

sBella == <<"B","e","l","l","a">>

sBellaBang == <<"b","e","l","l","a","!">>

sOther == <<"O","t","h","e","r">>

sSpecial == <<"s","p","e","c","i","a","l","-","o","f","-","d","a","y">>

sFoo == <<"F","o","o">>

sfoo == <<"f","o","o">>

sU1 == <<"u","1">>

sU2 == <<"u","2">>

sV1 == <<"1",".","0">>

\* Scenario A: id "Bella", one skill "special-of-day"
cardBella == AgentCard(Str(sBella), Str(sBella), Str(sU1), Str(sV1), Obj, Arr(<<sSpecial>>))

\* another agent whose id slugs to "bella" too, with two skills that slug alike
cardBellaBang == AgentCard(Str(sBellaBang), Str(sOther), Str(sU2), Str(sV1), Obj, Arr(<<sFoo, sfoo>>))

\* Scenario B: the manifest omits id
cardNoId == AgentCard(Undef, Str(sBella), Str(sU1), Str(sV1), Obj, Arr(<<sSpecial>>))

\* an invalid manifest: no name
cardNoName == AgentCard(Str(sBella), Undef, Str(sU1), Str(sV1), Obj, Arr(<<sSpecial>>))

\* a manifest whose id is longer than the bound; cut at 20 characters its
\* slug ends in a hyphen
sLong == <<"T","h","e"," ","L","o","n","g"," ","N","a","m","e","d"," ","B","o","t","s"," ","2","1">>

cardLongId == AgentCard(Str(sLong), Str(sOther), Str(sU2), Str(sV1), Obj, Arr(<<sFoo>>))

\* manifests whose id cannot be used: blank, symbols only, not a string
cardBlankId == [cardBella EXCEPT !.id = Str(<<" ", " ">>)]

cardSymbolId == [cardBella EXCEPT !.id = Str(<<"!", "?">>)]

cardObjectId == [cardBella EXCEPT !.id = Obj]

\* an agent without skills
cardNoSkills == [cardBella EXCEPT !.id = Str(sOther), !.skills = Arr(<<>>)]

\* invalid manifests: a blank url, skills that are no array
cardBlankUrl == [cardBella EXCEPT !.url = Str(<<" ">>)]

cardSkillsText == [cardBella EXCEPT !.skills = Str(sFoo)]

\* what an agent may serve at /.well-known/agent.json
Cards == {cardBella, cardBellaBang, cardNoId, cardNoName}

RegistrationUrls == {"r1", "r2"}

\* how the fetch of a card can fail: a network error, a non-2xx status
FetchFailures == {"network", "status"}

\* ------------------------------------------------------------------------
\* randomUUID
\* ------------------------------------------------------------------------

UuidDigits == <<"0","1","2","3","4","5","6","7","8","9">>

\* The n-th UUID the process draws, as 36 characters 8-4-4-4-12.  Two draws
\* never agree (crypto.randomUUID); the model tells them apart by one digit.
randomUUID(n) ==
  <<UuidDigits[(n % 10) + 1],"0","0","0","0","0","0","0","-","0","0","0","0","-",
    "4","0","0","0","-","8","0","0","0","-","0","0","0","0","0","0","0","0","0","0","0","0">>

\* ------------------------------------------------------------------------
\* Bounds
\* ------------------------------------------------------------------------

\* calls the client makes after start-up
MaxOps == 3

\* calls in flight at once when the client pipelines its requests
MaxInFlight == 2

MaxSlugInput == 4

MaxSlugBound == 3

\* ------------------------------------------------------------------------
\* State
\* ------------------------------------------------------------------------

VARIABLES
  dir,               \* the storage directory: <id> |-> the file <dir>/<id>.json
  cache,             \* A2ARegistry.cache, a Map in insertion order: <<[key, value], ...>>
  dynamicToolNames,  \* index.ts dynamicToolNames
  mcpTools,          \* the tools registered on the McpServer, in order: [name, serverId]
  calls,             \* per slot, the call in flight and where it is suspended
  last,              \* the call that completed last, with what it returned
  phase,             \* "boot", "main" (registry.init() done) or "serving"
  clock,             \* calls started so far; new Date() reads it
  uuids,             \* randomUUID() draws so far
  env,               \* the process's surroundings: [mock, pipelined, faults, cards, ids]
  hist               \* what the client has seen of the calls so far (see History)

vars == <<dir, cache, dynamicToolNames, mcpTools, calls, last, phase, clock, uuids, env, hist>>

Slots == 1..MaxInFlight

\* ------------------------------------------------------------------------
\* Map<string, RegisteredServer>
\* ------------------------------------------------------------------------

CacheKeys(c) == {c[i].key : i \in 1..Len(c)}

CacheHas(c, k) == \E i \in 1..Len(c) : c[i].key = k

\* Map.get: the value, or undefined
CacheGet(c, k) ==
  IF CacheHas(c, k) THEN Server(c[CHOOSE i \in 1..Len(c) : c[i].key = k].value)
  ELSE NoServer

CacheSetAppends(c, k, r) == Append(c, [key |-> k, value |-> r])

\* Map.set: a present key keeps its place, a new key goes last
CacheSet(c, k, r) ==
  IF CacheHas(c, k)
  THEN [i \in 1..Len(c) |-> IF c[i].key = k THEN [key |-> k, value |-> r] ELSE c[i]]
  ELSE Append(c, [key |-> k, value |-> r])

CacheDeleteKeeps(c, k) == c

\* Map.delete
CacheDelete(c, k) ==
  LET keep == {i \in 1..Len(c) : c[i].key # k}
      pos(n) == CHOOSE i \in keep : Cardinality({j \in keep : j < i}) = n - 1
  IN  [n \in 1..Cardinality(keep) |-> c[pos(n)]]

\* Array.from(cache.values())
CacheValues(c) == [i \in 1..Len(c) |-> c[i].value]

\* ------------------------------------------------------------------------
\* The directory
\* ------------------------------------------------------------------------

\* fs.writeFile(<dir>/<k>.json, text)
WriteFile(d, k, text) ==
  [x \in DOMAIN d \cup {k} |-> IF x = k THEN JsonFile(text) ELSE d[x]]

UnlinkKeeps(d, k) == d

\* fs.unlink(<dir>/<k>.json)
Unlink(d, k) == [x \in DOMAIN d \ {k} |-> d[x]]

\* what a storage call can do: succeed, or fail when the storage is faulty
IoOutcomes == IF env.faults THEN {TRUE, FALSE} ELSE {TRUE}

\* _readServerFile: the parsed record, or undefined when the file is missing,
\* unreadable (ok = FALSE) or not JSON
ReadServerFile(d, k, ok) ==
  IF ~ok \/ k \notin DOMAIN d THEN NoServer
  ELSE IF ~d[k].json THEN NoServer
  ELSE Server(JSONparse(d[k].body))

\* ------------------------------------------------------------------------
\* register: validation and identifier derivation
\* ------------------------------------------------------------------------

SetMin(S) == CHOOSE x \in S : \A y \in S : x <= y

requiredFields == <<"name", "url", "version", "capabilities", "skills">>

\* !card[field] || (typeof card[field] === 'string' && !card[field].trim())
FieldInvalidOrEmpty(card, field) ==
  \/ ~Truthy(card[field])
  \/ IsBlankString(card[field])
  \/ card[field].t = "array" /\ card[field].v = <<>>

FieldInvalid(card, field) == ~Truthy(card[field]) \/ IsBlankString(card[field])

\* The error register throws for the card, or "" when the card is valid
ValidateCard(card) ==
  IF \E i \in 1..Len(requiredFields) : FieldInvalid(card, requiredFields[i])
  THEN requiredFields[SetMin({i \in 1..Len(requiredFields) :
                                FieldInvalid(card, requiredFields[i])})]
  ELSE IF card.skills.t # "array" THEN "skills-not-array"
  ELSE ""

\* card.id && typeof card.id === 'string' && card.id.trim(), and its slug is
\* not empty
UsesCardId(card) ==
  /\ Truthy(card.id) /\ card.id.t = "string" /\ trim(card.id.v) # <<>>
  /\ slugify(trim(card.id.v), MAX_SERVER_ID_SLUG_LENGTH) # <<>>

DeriveIdFromName(card, n) ==
  IF UsesCardId(card)
  THEN slugify(trim(card.id.v), MAX_SERVER_ID_SLUG_LENGTH)
  ELSE slugify(trim(card.name.v), MAX_SERVER_ID_SLUG_LENGTH)

DeriveIdCut(card, n) ==
  IF UsesCardId(card)
  THEN slugify(trim(card.id.v), MAX_SERVER_ID_SLUG_LENGTH)
  ELSE substring0(randomUUID(n), MAX_SERVER_ID_SLUG_LENGTH - 1)

\* registrationId, given the number of UUIDs drawn before
DeriveId(card, n) ==
  IF UsesCardId(card)
  THEN slugify(trim(card.id.v), MAX_SERVER_ID_SLUG_LENGTH)
  ELSE substring0(randomUUID(n), MAX_SERVER_ID_SLUG_LENGTH)

SameRegistrationNever(existing, registrationUrl, card) == FALSE

SameRegistrationUrl(existing, registrationUrl, card) ==
  existing.t = "server" /\ existing.v.registrationUrl = registrationUrl

\* existing?.registrationUrl === registrationUrl && existing?.card.url === card.url
SameRegistration(existing, registrationUrl, card) ==
  /\ existing.t = "server"
  /\ existing.v.registrationUrl = registrationUrl
  /\ existing.v.card.url = card.url

\* ------------------------------------------------------------------------
\* Calls
\* ------------------------------------------------------------------------

NoCard == AgentCard(Undef, Undef, Undef, Undef, Undef, Undef)

NoEntry == RegisteredServer(<<>>, "", NoCard, 0)

\* no file read of the call has completed ahead of its continuation
NotRead == [t |-> "none", v |-> <<>>]

IdleCall ==
  [op |-> "idle", pc |-> "idle", url |-> "", id |-> <<>>, key |-> <<>>,
   card |-> NoCard, entry |-> NoEntry, files |-> {}, inCache |-> FALSE,
   tool |-> <<>>, taskId |-> <<>>, data |-> NotRead]

\* what came back from the remote agent: nothing yet
NoAnswer == [kind |-> "none", message |-> "", code |-> "", parts |-> <<>>]

NoCall ==
  [op |-> "none", url |-> "", id |-> <<>>, key |-> <<>>, card |-> NoCard,
   tool |-> <<>>, sent |-> <<>>, answer |-> NoAnswer, maxLength |-> 0,
   logged |-> "", ret |-> Undef]

\* results
Threw(what) == [t |-> "error", v |-> what]

Bool(b) == [t |-> "boolean", v |-> b]

Count(n) == [t |-> "count", v |-> n]

List(l) == [t |-> "list", v |-> l]

AllIdle == \A s \in Slots : calls[s].pc = "idle"

\* A new call takes the lowest free slot; a client that does not pipeline
\* waits for the answer before it sends the next request.
CanStart(s) ==
  /\ phase = "serving"
  /\ clock < MaxOps
  /\ calls[s].pc = "idle"
  /\ \A o \in Slots : o < s => calls[o].pc # "idle"
  /\ (env.pipelined \/ AllIdle)

\* the frame of a call suspended at pc
Begin(op, pc, url, id, key) ==
  [IdleCall EXCEPT !.op = op, !.pc = pc, !.url = url, !.id = id, !.key = key]

\* the call of slot s returns (or throws) ret
Returned(s, ret) ==
  [op |-> calls[s].op, url |-> calls[s].url, id |-> calls[s].id,
   key |-> calls[s].key, card |-> calls[s].card, tool |-> calls[s].tool,
   sent |-> <<>>, answer |-> NoAnswer, maxLength |-> 0, logged |-> "", ret |-> ret]

\* ------------------------------------------------------------------------
\* History: what a client that watches its own calls knows
\* ------------------------------------------------------------------------

\* hist.pure     the directory was empty at start-up and every call so far
\*               was a list or a register that returned a record for a
\*               manifest not registered before;  hist.cards  those manifests
\* hist.chain    the record the call before returned when that call was a
\*               successful register (stage 1), a reloadServers that was
\*               called next (stage 2), a get called after that (stage 3)
\* hist.removed  the keys remove returned true for since the last register
\*               or reloadServers was called;  hist.removedEver  since start-up
\* hist.passes   the registerSkillTools passes that ran since the client's
\*               last call
\* hist.own      every file the directory held at start-up was one register
\*               wrote
NoChain == [stage |-> 0, url |-> "", card |-> NoCard, rec |-> NoEntry]

\* the files of d are as register writes them: <id>.json holds the record
\* of that id, and the id is a slug within the bound
OwnFiles(d) ==
  \A k \in DOMAIN d :
    /\ d[k].json
    /\ JSONparse(d[k].body).id = k
    /\ slugify(k, MAX_SERVER_ID_SLUG_LENGTH) = k

NoHistory(d) ==
  [pure |-> DOMAIN d = {}, cards |-> {}, chain |-> NoChain,
   removed |-> {}, removedEver |-> {}, passes |-> 0, own |-> OwnFiles(d)]

\* the client calls op
AtCall(h, op) ==
  [h EXCEPT
     !.pure = h.pure /\ op \in {"register", "list"},
     !.cards = IF h.pure /\ op \in {"register", "list"} THEN h.cards ELSE {},
     !.chain = IF op = "register" /\ h.chain.stage = 1 THEN h.chain
               ELSE IF op = "reloadServers" /\ h.chain.stage = 1
                    THEN [h.chain EXCEPT !.stage = 2]
               ELSE IF op = "get" /\ h.chain.stage = 2
                    THEN [h.chain EXCEPT !.stage = 3]
               ELSE NoChain,
     !.removed = IF op \in {"register", "reloadServers"} THEN {} ELSE h.removed,
     !.passes = 0]

\* a call returns result to the client
AtReturn(h, result) ==
  LET registeredOk == result.op = "register" /\ result.ret.t = "server"
      pure == IF result.op = "register"
              THEN h.pure /\ registeredOk /\ result.card \notin h.cards
              ELSE h.pure
      removedOk == result.op = "remove" /\ result.ret.t = "boolean" /\ result.ret.v
  IN  [h EXCEPT
         !.pure = pure,
         !.cards = IF pure /\ registeredOk THEN h.cards \cup {result.card}
                   ELSE IF pure THEN h.cards ELSE {},
         !.chain = IF result.op # "register" THEN h.chain
                   ELSE IF registeredOk
                        THEN [stage |-> 1, url |-> result.url, card |-> result.card,
                              rec |-> result.ret.v]
                   ELSE NoChain,
         !.removed = IF removedOk THEN h.removed \cup {result.key} ELSE h.removed,
         !.removedEver = IF removedOk THEN h.removedEver \cup {result.key}
                         ELSE h.removedEver]

\* the new call of slot s is suspended at its first await
Suspend(s, call) ==
  /\ calls' = [calls EXCEPT ![s] = call]
  /\ hist' = AtCall(hist, call.op)
  /\ UNCHANGED last

\* a call that never awaits returns at once
Immediate(result) ==
  /\ last' = result
  /\ hist' = AtReturn(AtCall(hist, result.op), result)
  /\ UNCHANGED calls

\* the suspended call of slot s returns result
FinishWith(s, result) ==
  /\ calls' = [calls EXCEPT ![s] = IdleCall]
  /\ last' = result
  /\ hist' = IF calls[s].op = "init" THEN hist ELSE AtReturn(hist, result)

Finish(s, ret) == FinishWith(s, Returned(s, ret))

\* the suspended call of slot s moves on to its next await
Goto(s, call) ==
  /\ calls' = [calls EXCEPT ![s] = call]
  /\ UNCHANGED <<last, hist>>

\* ------------------------------------------------------------------------
\* reloadServers and init
\* ------------------------------------------------------------------------

CacheClearKeeps(c) == c

\* this.cache.clear()
CacheClear(c) == <<>>

\* init(): fs.mkdir, then reloadServers() up to its first await
InitCall(s) ==
  /\ phase = "boot" /\ s = 1 /\ calls[s].pc = "idle"
  /\ cache' = CacheClear(cache)
  /\ calls' = [calls EXCEPT ![s] = Begin("init", "readdir", "", <<>>, <<>>)]
  /\ UNCHANGED <<dir, dynamicToolNames, mcpTools, last, phase, clock, uuids, env, hist>>

\* reloadServers() up to its first await: this.cache.clear()
ReloadCall(s) ==
  /\ CanStart(s)
  /\ cache' = CacheClear(cache)
  /\ Suspend(s, Begin("reloadServers", "readdir", "", <<>>, <<>>))
  /\ clock' = clock + 1
  /\ UNCHANGED <<dir, dynamicToolNames, mcpTools, phase, uuids, env>>

\* the phase after the call of slot s has returned
PhaseAfter(s) == IF calls[s].op = "init" THEN "main" ELSE phase

\* what the catch of reloadServers writes to the log
ReloadFailed == "Failed to reload servers"

\* fs.readdir returns, or throws into the catch that logs the error and
\* returns { count: 0 }
ReloadScanned(s) ==
  /\ calls[s].pc = "readdir"
  /\ \E ok \in IoOutcomes :
       IF ok /\ DOMAIN dir # {}
       THEN /\ Goto(s, [calls[s] EXCEPT !.pc = "readfile", !.files = DOMAIN dir])
            /\ UNCHANGED phase
       ELSE /\ IF ok THEN Finish(s, Count(Len(cache)))
               ELSE FinishWith(s, [Returned(s, Count(0)) EXCEPT !.logged = ReloadFailed])
            /\ phase' = PhaseAfter(s)
  /\ UNCHANGED <<dir, cache, dynamicToolNames, mcpTools, clock, uuids, env>>

HasIdOrNot(server) == server.t = "server"

\* `server?.id`: the record has a non-empty id
HasId(server) == server.t = "server" /\ server.v.id # <<>>

\* fs.readFile of the next file has read the file while the continuation of
\* the loop has not run yet (other handlers run in between)
ReloadFileOpened(s) ==
  /\ calls[s].pc = "readfile" /\ calls[s].data = NotRead
  /\ \E f \in calls[s].files :
       Goto(s, [calls[s] EXCEPT !.key = f, !.data = ReadServerFile(dir, f, TRUE)])
  /\ UNCHANGED <<dir, cache, phase, dynamicToolNames, mcpTools, clock, uuids, env>>

\* the files the next turn of the loop may be about, and what
\* _readServerFile returns for file f
NextFiles(s) == IF calls[s].data = NotRead THEN calls[s].files ELSE {calls[s].key}

FileAsRead(s, f, ok) ==
  IF calls[s].data = NotRead THEN ReadServerFile(dir, f, ok) ELSE calls[s].data

\* one turn of the loop: _readServerFile returns for the next file, in the
\* order readdir listed them (any order)
ReloadFileRead(s) ==
  /\ calls[s].pc = "readfile"
  /\ \E f \in NextFiles(s), ok \in IoOutcomes :
       LET server == FileAsRead(s, f, ok)
           cache1 == IF HasId(server) THEN CacheSet(cache, server.v.id, server.v) ELSE cache
           left   == calls[s].files \ {f}
       IN  /\ cache' = cache1
           /\ IF left = {}
              THEN /\ Finish(s, Count(Len(cache1)))
                   /\ phase' = PhaseAfter(s)
              ELSE /\ Goto(s, [calls[s] EXCEPT !.files = left, !.key = <<>>,
                                                !.data = NotRead])
                   /\ UNCHANGED phase
  /\ UNCHANGED <<dir, dynamicToolNames, mcpTools, clock, uuids, env>>

\* ------------------------------------------------------------------------
\* register (behind the a2a_register_server tool, which only wraps its
\* result)
\* ------------------------------------------------------------------------

\* register(registrationUrl) up to `await fetch(cardEndpoint)`
RegisterCall(s) ==
  /\ CanStart(s)
  /\ \E registrationUrl \in RegistrationUrls :
       Suspend(s, Begin("register", "fetch", registrationUrl, <<>>, <<>>))
  /\ clock' = clock + 1
  /\ UNCHANGED <<dir, cache, dynamicToolNames, mcpTools, phase, uuids, env>>

\* the fetch fails: register throws
RegisterFetchFailed(s) ==
  /\ calls[s].op = "register" /\ calls[s].pc = "fetch"
  /\ \E why \in FetchFailures : Finish(s, Threw(why))
  /\ UNCHANGED <<dir, cache, dynamicToolNames, mcpTools, phase, clock, uuids, env>>

\* the card arrives: validation, the identifier, the look in the cache
RegisterFetched(s) ==
  /\ calls[s].op = "register" /\ calls[s].pc = "fetch"
  /\ \E card \in env.cards :
       IF ValidateCard(card) # ""
       THEN /\ Finish(s, Threw(ValidateCard(card)))
            /\ UNCHANGED uuids
       ELSE LET registrationId == DeriveId(card, uuids)
                existingFromCache == CacheGet(cache, registrationId)
            IN  /\ uuids' = IF UsesCardId(card) THEN uuids ELSE uuids + 1
                /\ IF SameRegistration(existingFromCache, calls[s].url, card)
                   THEN FinishWith(s, [Returned(s, existingFromCache)
                                         EXCEPT !.card = card, !.key = registrationId])
                   ELSE Goto(s, [calls[s] EXCEPT !.pc = "read", !.card = card,
                                                 !.key = registrationId])
  /\ UNCHANGED <<dir, cache, dynamicToolNames, mcpTools, phase, clock, env>>

RegisterReadRefreshed(s) ==
  /\ calls[s].op = "register" /\ calls[s].pc = "read"
  /\ \E ok \in IoOutcomes :
       LET diskEntry == ReadServerFile(dir, calls[s].key, ok)
       IN  IF SameRegistration(diskEntry, calls[s].url, calls[s].card)
           THEN /\ cache' = CacheSet(cache, calls[s].key,
                                     [diskEntry.v EXCEPT !.card = calls[s].card])
                /\ Finish(s, Server([diskEntry.v EXCEPT !.card = calls[s].card]))
           ELSE /\ Goto(s, [calls[s] EXCEPT !.pc = "write",
                              !.entry = RegisteredServer(calls[s].key, calls[s].url,
                                                         calls[s].card, clock)])
                /\ UNCHANGED cache
  /\ UNCHANGED <<dir, dynamicToolNames, mcpTools, phase, clock, uuids, env>>

\* _readServerFile(filePath(registrationId)) returns: the record on disk is
\* this registration, or a new entry is built and its write begins
RegisterRead(s) ==
  /\ calls[s].op = "register" /\ calls[s].pc = "read"
  /\ \E ok \in IoOutcomes :
       LET diskEntry == ReadServerFile(dir, calls[s].key, ok)
       IN  IF SameRegistration(diskEntry, calls[s].url, calls[s].card)
           THEN /\ cache' = CacheSet(cache, calls[s].key, diskEntry.v)
                /\ Finish(s, diskEntry)
           ELSE /\ Goto(s, [calls[s] EXCEPT !.pc = "write",
                              !.entry = RegisteredServer(calls[s].key, calls[s].url,
                                                         calls[s].card, clock)])
                /\ UNCHANGED cache
  /\ UNCHANGED <<dir, dynamicToolNames, mcpTools, phase, clock, uuids, env>>

RegisterWrittenCacheFirst(s) ==
  /\ calls[s].op = "register" /\ calls[s].pc = "write"
  /\ cache' = CacheSet(cache, calls[s].key, calls[s].entry)
  /\ \E ok \in IoOutcomes :
       IF ok
       THEN /\ dir' = WriteFile(dir, calls[s].key, JSONstringify(calls[s].entry))
            /\ Finish(s, Server(calls[s].entry))
       ELSE /\ Finish(s, Threw("write"))
            /\ UNCHANGED dir
  /\ UNCHANGED <<dynamicToolNames, mcpTools, phase, clock, uuids, env>>

\* fs.writeFile returns, then this.cache.set; or it throws and so does register
RegisterWritten(s) ==
  /\ calls[s].op = "register" /\ calls[s].pc = "write"
  /\ \E ok \in IoOutcomes :
       IF ok
       THEN /\ dir' = WriteFile(dir, calls[s].key, JSONstringify(calls[s].entry))
            /\ cache' = CacheSet(cache, calls[s].key, calls[s].entry)
            /\ Finish(s, Server(calls[s].entry))
       ELSE /\ Finish(s, Threw("write"))
            /\ UNCHANGED <<dir, cache>>
  /\ UNCHANGED <<dynamicToolNames, mcpTools, phase, clock, uuids, env>>

\* ------------------------------------------------------------------------
\* get, list, remove (behind a2a_get_server_details, a2a_list_servers and
\* a2a_remove_server)
\* ------------------------------------------------------------------------

\* the ids a client may ask for: the id the manifests give, as they spell
\* it, the ids a2a_list_servers shows, the names it saw in the directory,
\* and the random ids handed out so far
IdArgs ==
  {sBella} \cup CacheKeys(cache) \cup env.ids
    \cup {substring0(randomUUID(n), MAX_SERVER_ID_SLUG_LENGTH) : n \in 0..(uuids - 1)}

\* get(id) up to its return from the cache or to `await this._readServerFile`
GetCall(s) ==
  /\ CanStart(s)
  /\ clock' = clock + 1
  /\ \E id \in IdArgs :
       LET sluggedIdToSearch == slugify(id, MAX_SERVER_ID_SLUG_LENGTH)
       IN  IF CacheHas(cache, sluggedIdToSearch)
           THEN Immediate([NoCall EXCEPT !.op = "get", !.id = id, !.key = sluggedIdToSearch,
                                         !.ret = CacheGet(cache, sluggedIdToSearch)])
           ELSE Suspend(s, Begin("get", "read", "", id, sluggedIdToSearch))
  /\ UNCHANGED <<dir, cache, dynamicToolNames, mcpTools, phase, uuids, env>>

GetReadUncached(s) ==
  /\ calls[s].op = "get" /\ calls[s].pc = "read"
  /\ Finish(s, ReadServerFile(dir, calls[s].key, TRUE))
  /\ UNCHANGED <<dir, cache, dynamicToolNames, mcpTools, phase, clock, uuids, env>>

\* the file read of get returns: absent, or the record, which is cached under
\* the key the file name gives, whatever id it holds
GetRead(s) ==
  /\ calls[s].op = "get" /\ calls[s].pc = "read"
  /\ \E ok \in IoOutcomes :
       LET serverFromFile == ReadServerFile(dir, calls[s].key, ok)
       IN  /\ cache' = IF serverFromFile.t = "server"
                       THEN CacheSet(cache, calls[s].key, serverFromFile.v)
                       ELSE cache
           /\ Finish(s, serverFromFile)
  /\ UNCHANGED <<dir, dynamicToolNames, mcpTools, phase, clock, uuids, env>>

ListCallFromDisk(s) ==
  /\ CanStart(s)
  /\ clock' = clock + 1
  /\ \E l \in {q \in [1..Cardinality(DOMAIN dir) -> DOMAIN dir] :
                  \A i, j \in DOMAIN q : q[i] = q[j] => i = j} :
       Immediate([NoCall EXCEPT !.op = "list",
                    !.ret = List([i \in 1..Len(l) |-> ReadServerFile(dir, l[i], TRUE).v])])
  /\ UNCHANGED <<dir, cache, dynamicToolNames, mcpTools, phase, uuids, env>>

\* list(): Array.from(this.cache.values())
ListCall(s) ==
  /\ CanStart(s)
  /\ clock' = clock + 1
  /\ Immediate([NoCall EXCEPT !.op = "list", !.ret = List(CacheValues(cache))])
  /\ UNCHANGED <<dir, cache, dynamicToolNames, mcpTools, phase, uuids, env>>

\* remove(id) up to `await fs.access(filePath)`
RemoveCall(s) ==
  /\ CanStart(s)
  /\ clock' = clock + 1
  /\ \E id \in IdArgs :
       LET sluggedIdToRemove == slugify(id, MAX_SERVER_ID_SLUG_LENGTH)
       IN  Suspend(s, [Begin("remove", "access", "", id, sluggedIdToRemove)
                         EXCEPT !.inCache = CacheHas(cache, sluggedIdToRemove)])
  /\ UNCHANGED <<dir, cache, dynamicToolNames, mcpTools, phase, uuids, env>>

RemoveAccessedDiskOnly(s) ==
  /\ calls[s].op = "remove" /\ calls[s].pc = "access"
  /\ IF calls[s].key \in DOMAIN dir
     THEN Goto(s, [calls[s] EXCEPT !.pc = "unlink"])
     ELSE Finish(s, Bool(FALSE))
  /\ UNCHANGED <<dir, cache, dynamicToolNames, mcpTools, phase, clock, uuids, env>>

RemoveAccessedEager(s) ==
  /\ calls[s].op = "remove" /\ calls[s].pc = "access"
  /\ cache' = CacheDelete(cache, calls[s].key)
  /\ \E ok \in IoOutcomes :
       LET existsOnDisk == ok /\ calls[s].key \in DOMAIN dir
       IN  IF ~calls[s].inCache /\ ~existsOnDisk
           THEN Finish(s, Bool(FALSE))
           ELSE IF existsOnDisk
           THEN Goto(s, [calls[s] EXCEPT !.pc = "unlink"])
           ELSE Finish(s, Bool(TRUE))
  /\ UNCHANGED <<dir, dynamicToolNames, mcpTools, phase, clock, uuids, env>>

\* fs.access returns or throws (existsOnDisk stays false)
RemoveAccessed(s) ==
  /\ calls[s].op = "remove" /\ calls[s].pc = "access"
  /\ \E ok \in IoOutcomes :
       LET existsOnDisk == ok /\ calls[s].key \in DOMAIN dir
       IN  IF ~calls[s].inCache /\ ~existsOnDisk
           THEN /\ Finish(s, Bool(FALSE))
                /\ UNCHANGED cache
           ELSE IF existsOnDisk
           THEN /\ Goto(s, [calls[s] EXCEPT !.pc = "unlink"])
                /\ UNCHANGED cache
           ELSE /\ cache' = CacheDelete(cache, calls[s].key)
                /\ Finish(s, Bool(TRUE))
  /\ UNCHANGED <<dir, dynamicToolNames, mcpTools, phase, clock, uuids, env>>

RemoveUnlinkedCacheFirst(s) ==
  /\ calls[s].op = "remove" /\ calls[s].pc = "unlink"
  /\ cache' = CacheDelete(cache, calls[s].key)
  /\ \E ok \in IoOutcomes :
       IF ok /\ calls[s].key \in DOMAIN dir
       THEN /\ dir' = Unlink(dir, calls[s].key)
            /\ Finish(s, Bool(TRUE))
       ELSE /\ Finish(s, Bool(FALSE))
            /\ UNCHANGED dir
  /\ UNCHANGED <<dynamicToolNames, mcpTools, phase, clock, uuids, env>>

\* fs.unlink returns, then this.cache.delete; or it throws (the storage
\* fails, the file is gone by now) into the catch that returns false
RemoveUnlinked(s) ==
  /\ calls[s].op = "remove" /\ calls[s].pc = "unlink"
  /\ \E ok \in IoOutcomes :
       IF ok /\ calls[s].key \in DOMAIN dir
       THEN /\ dir' = Unlink(dir, calls[s].key)
            /\ cache' = CacheDelete(cache, calls[s].key)
            /\ Finish(s, Bool(TRUE))
       ELSE /\ Finish(s, Bool(FALSE))
            /\ UNCHANGED <<dir, cache>>
  /\ UNCHANGED <<dynamicToolNames, mcpTools, phase, clock, uuids, env>>

\* ------------------------------------------------------------------------
\* The bridge: one MCP tool per skill
\* ------------------------------------------------------------------------

makeSkillToolNameDashed(serverId, skillId) ==
  slugifyTool(serverId) \o <<"-">> \o slugifyTool(skillId)

\* `${slugify(serverId)}_${slugify(skillId)}`
makeSkillToolName(serverId, skillId) ==
  slugifyTool(serverId) \o <<"_">> \o slugifyTool(skillId)

\* srv.card.skills ?? []: the ids of the skills the loop visits.  A string
\* would be visited character by character, none of which has an id.
SkillIds(card) ==
  IF card.skills.t = "array" THEN card.skills.v
  ELSE IF card.skills.t = "string" THEN [i \in 1..Len(card.skills.v) |-> <<>>]
  ELSE <<>>

\* the (server, skill) pairs in the order the two loops visit them
RECURSIVE SkillPairs(_)
SkillPairs(servers) ==
  IF servers = <<>> THEN <<>>
  ELSE LET srv == Head(servers)
           ids == SkillIds(srv.card)
       IN  [i \in 1..Len(ids) |-> [serverId |-> srv.id, skillId |-> ids[i]]]
             \o SkillPairs(Tail(servers))

AddSkillToolAlways(acc, pair) ==
  LET toolName == makeSkillToolName(pair.serverId, pair.skillId)
  IN  [names |-> acc.names \cup {toolName},
       tools |-> Append(acc.tools, [name |-> toolName, serverId |-> pair.serverId]),
       countAdded |-> acc.countAdded + 1]

\* the body of the inner loop for one pair: skip a name already in
\* dynamicToolNames, else mcpServerInstance.tool(...) and count it
AddSkillTool(acc, pair) ==
  LET toolName == makeSkillToolName(pair.serverId, pair.skillId)
  IN  IF toolName \in acc.names THEN acc
      ELSE [names |-> acc.names \cup {toolName},
            tools |-> Append(acc.tools, [name |-> toolName, serverId |-> pair.serverId]),
            countAdded |-> acc.countAdded + 1]

RECURSIVE AddSkillTools(_, _)
AddSkillTools(acc, pairs) ==
  IF pairs = <<>> THEN acc
  ELSE AddSkillTools(AddSkillTool(acc, Head(pairs)), Tail(pairs))

registerSkillToolsFresh(servers, names, tools) ==
  AddSkillTools([names |-> {}, tools |-> tools, countAdded |-> 0], SkillPairs(servers))

\* registerSkillTools(server) over the registry as list() gives it
registerSkillTools(servers, names, tools) ==
  AddSkillTools([names |-> names, tools |-> tools, countAdded |-> 0], SkillPairs(servers))

\* main(): `await registerSkillTools(server)`, then the fixed tools are
\* registered and the transport is connected
MainRegisterSkillTools ==
  /\ phase = "main"
  /\ LET done == registerSkillTools(CacheValues(cache), dynamicToolNames, mcpTools)
     IN  /\ dynamicToolNames' = done.names
         /\ mcpTools' = done.tools
         /\ last' = [NoCall EXCEPT !.op = "registerSkillTools", !.ret = Count(done.countAdded)]
  /\ phase' = "serving"
  /\ hist' = [hist EXCEPT !.passes = 1]
  /\ UNCHANGED <<dir, cache, calls, clock, uuids, env>>

\* registerSkillTools(server) run once more while the bridge serves: main()
\* never does it; a harness does, for the properties of the pass itself
RegisterSkillToolsAgain ==
  /\ phase = "serving" /\ AllIdle /\ clock < MaxOps
  /\ LET done == registerSkillTools(CacheValues(cache), dynamicToolNames, mcpTools)
     IN  /\ dynamicToolNames' = done.names
         /\ mcpTools' = done.tools
         /\ last' = [NoCall EXCEPT !.op = "registerSkillTools", !.ret = Count(done.countAdded)]
  /\ clock' = clock + 1
  /\ hist' = [hist EXCEPT !.pure = FALSE, !.cards = {}, !.chain = NoChain,
                          !.passes = hist.passes + 1]
  /\ UNCHANGED <<dir, cache, calls, phase, uuids, env>>

\* ------------------------------------------------------------------------
\* callSendTask, behind a2a_send_task and behind every skill tool
\* ------------------------------------------------------------------------

\* the task ids a client passes to a2a_send_task
TaskIds == {<<"t","1">>}

\* how a tasks/send request can end: a network error that carries a code, a
\* non-2xx status, a JSON-RPC error, a result with reply parts, one without
RpcOutcomes == {"fetchError", "httpError", "rpcError", "parts", "noParts"}

\* the texts of the model
ReplyParts == <<"reply part 1", "reply part 2">>

Envelope(isError, content) == [t |-> "envelope", v |-> [isError |-> isError, content |-> content]]

\* what comes back for each outcome: the FetchError of node-fetch with its
\* message and code, the status of a non-2xx response, the message of the
\* error object of a JSON-RPC response, or a result
Answer(outcome) ==
  IF outcome = "fetchError"
  THEN [NoAnswer EXCEPT !.kind = outcome, !.code = "ECONNREFUSED",
                        !.message = "request to url failed, reason: connect ECONNREFUSED"]
  ELSE IF outcome = "httpError" THEN [NoAnswer EXCEPT !.kind = outcome, !.message = "500"]
  ELSE IF outcome = "rpcError"
  THEN [NoAnswer EXCEPT !.kind = outcome, !.message = "Task Not Found"]
  ELSE IF outcome = "parts"
  THEN [NoAnswer EXCEPT !.kind = outcome,
                        !.parts = [i \in 1..Len(ReplyParts) |->
                                     [type |-> "text", text |-> ReplyParts[i]]]]
  ELSE [NoAnswer EXCEPT !.kind = outcome]

\* the error callSendTask throws: the FetchError as it is, sendA2ARequest's
\* `A2A HTTP error: ${response.status}`, or new Error(resp.error.message)
ThrownError(answer) ==
  IF answer.kind = "fetchError" THEN [message |-> answer.message, code |-> answer.code]
  ELSE IF answer.kind = "httpError"
  THEN [message |-> "A2A HTTP error: " \o answer.message, code |-> ""]
  ELSE [message |-> answer.message, code |-> ""]

CatchTextPrefixed(op, err) == "A2A error: " \o err.message

\* the handlers' catch: the skill tools use err.message; a2a_send_task
\* reports the code of an error that has one
CatchText(op, err) ==
  IF op = "a2a_send_task" /\ err.code # ""
  THEN "A2A fetch failed. Code: " \o err.code
  ELSE err.message

\* the text of the handler's reply when the request ends badly
ErrorText(op, outcome) == CatchText(op, ThrownError(Answer(outcome)))

\* the handlers' reply when the result has no status.message.parts
NoPartsText(op) ==
  IF op = "a2a_send_task" THEN "Mock task completed (no specific agent reply)"
  ELSE "No reply received."

ReplyContentFirst(op, answer) ==
  IF answer.kind = "parts" THEN <<answer.parts[1].text>> ELSE <<NoPartsText(op)>>

\* result?.status?.message?.parts?.map(part => ({ type: 'text', text:
\* part.text })), or the handler's fixed text when the result has no parts
ReplyContent(op, answer) ==
  IF answer.kind = "parts"
  THEN [i \in 1..Len(answer.parts) |-> answer.parts[i].text]
  ELSE <<NoPartsText(op)>>

\* callSendTask's `Unknown A2A server id: ${serverId}. Register it first.`
UnknownServer(serverId) ==
  Envelope(TRUE, << <<"Unknown A2A server id: ", serverId, ". Register it first.">> >>)

\* callSendTask's reply in mock mode
MockReply(taskId) == Envelope(FALSE, << <<"Mock agent acknowledges task: ", taskId>> >>)

SendTaskLookedUpMockFirst(s, serverEntry, cache1) ==
  /\ cache' = cache1
  /\ IF env.mock THEN Finish(s, MockReply(calls[s].taskId))
     ELSE IF serverEntry.t # "server" THEN Finish(s, UnknownServer(calls[s].id))
     ELSE Goto(s, [calls[s] EXCEPT !.pc = "rpc", !.entry = serverEntry.v])

\* what the handler does once callSendTask has looked the server up: unknown
\* id, the mock reply, or the request goes out (its JSON-RPC id is a UUID
\* nothing reads)
SendTaskLookedUpAgain(s, serverEntry, cache1) ==
  /\ cache' = cache
  /\ Goto(s, calls[s])

SendTaskLookedUp(s, serverEntry, cache1) ==
  /\ cache' = cache1
  /\ IF serverEntry.t # "server" THEN Finish(s, UnknownServer(calls[s].id))
     ELSE IF env.mock THEN Finish(s, MockReply(calls[s].taskId))
     ELSE Goto(s, [calls[s] EXCEPT !.pc = "rpc", !.entry = serverEntry.v])

\* a handler calls callSendTask: registry.get(serverId) up to its return
\* from the cache or to its file read
SendTaskBegin(s, op, serverId, tool, taskId, n) ==
  /\ clock' = clock + 1
  /\ uuids' = n
  /\ LET key == slugify(serverId, MAX_SERVER_ID_SLUG_LENGTH)
         call == [IdleCall EXCEPT !.op = op, !.pc = "read", !.id = serverId,
                                  !.key = key, !.tool = tool, !.taskId = taskId]
     IN  IF ~CacheHas(cache, key)
         THEN /\ Suspend(s, call)
              /\ UNCHANGED cache
         ELSE IF env.mock
         THEN /\ Immediate([NoCall EXCEPT !.op = op, !.id = serverId, !.key = key,
                                          !.tool = tool, !.ret = MockReply(taskId)])
              /\ UNCHANGED cache
         ELSE /\ Suspend(s, [call EXCEPT !.pc = "rpc", !.entry = CacheGet(cache, key).v])
              /\ UNCHANGED cache
  /\ UNCHANGED <<dir, dynamicToolNames, mcpTools, phase, env>>

\* the a2a_send_task tool is called
SendTaskCall(s) ==
  /\ CanStart(s)
  /\ \E serverId \in IdArgs, taskId \in TaskIds :
       SendTaskBegin(s, "a2a_send_task", serverId, <<>>, taskId, uuids)

\* the i-th skill tool is called: serverId is the srv.id its closure holds,
\* the task id a fresh UUID
SkillToolCall(s) ==
  /\ CanStart(s)
  /\ \E i \in 1..Len(mcpTools) :
       SendTaskBegin(s, "skillTool", mcpTools[i].serverId, mcpTools[i].name,
                     randomUUID(uuids), uuids + 1)

\* the file read of registry.get returns inside callSendTask
SendTaskRead(s) ==
  /\ calls[s].op \in {"a2a_send_task", "skillTool"} /\ calls[s].pc = "read"
  /\ \E ok \in IoOutcomes :
       LET serverFromFile == ReadServerFile(dir, calls[s].key, ok)
       IN  SendTaskLookedUp(s, serverFromFile,
                            IF serverFromFile.t = "server"
                            THEN CacheSet(cache, calls[s].key, serverFromFile.v)
                            ELSE cache)
  /\ UNCHANGED <<dir, dynamicToolNames, mcpTools, phase, clock, uuids, env>>

\* the request sent to serverEntry.card.url ends
SendTaskAnswered(s) ==
  /\ calls[s].op \in {"a2a_send_task", "skillTool"} /\ calls[s].pc = "rpc"
  /\ \E outcome \in RpcOutcomes :
       FinishWith(s, [Returned(s,
                        IF outcome \in {"parts", "noParts"}
                        THEN Envelope(FALSE, ReplyContent(calls[s].op, Answer(outcome)))
                        ELSE Envelope(TRUE, <<ErrorText(calls[s].op, outcome)>>))
                        EXCEPT !.sent = <<calls[s].entry.card.url>>,
                               !.answer = Answer(outcome)])
  /\ UNCHANGED <<dir, cache, dynamicToolNames, mcpTools, phase, clock, uuids, env>>

\* ------------------------------------------------------------------------
\* The tool handlers around the registry
\* ------------------------------------------------------------------------

\* a handler with no try/catch: what the registry throws reaches the caller
ToolReplyUncaught(result) ==
  IF result.ret.t = "error" THEN result.ret
  ELSE Envelope(result.ret.t = "undefined", <<result.op>>)

\* What the tool handler makes of the result of the registry call it wraps:
\* the catch turns an error thrown by the registry into a text, with the
\* prefix the handler gives it; a2a_send_task and the skill tools return the
\* envelope they built themselves.
ToolReply(result) ==
  LET op  == result.op
      ret == result.ret
  IN  IF op \in {"a2a_send_task", "skillTool"} THEN ret
      ELSE IF op = "register"
      THEN (IF ret.t = "error" THEN Envelope(TRUE, << <<ret.v>> >>)
            ELSE IF ret.t = "server"
            THEN Envelope(FALSE, << <<"Registered A2A server ",
                                      IF ret.v.card.name.t = "undefined" THEN ret.v.id
                                      ELSE ret.v.card.name.v>> >>)
            ELSE ret)
      ELSE IF op = "reloadServers"
      THEN (IF ret.t = "error"
            THEN Envelope(TRUE, << <<"Failed to reload A2A servers: ", ret.v>> >>)
            ELSE IF ret.t = "count"
            THEN Envelope(FALSE, << <<"Successfully reloaded A2A server configurations. Found ",
                                      ret.v, " servers.">> >>)
            ELSE ret)
      ELSE IF op = "list"
      THEN (IF ret.t = "error"
            THEN Envelope(TRUE, << <<"Failed to list A2A servers: ", ret.v>> >>)
            ELSE IF ret.t = "list"
            THEN Envelope(FALSE, << <<"Found ", Len(ret.v), " registered A2A servers:",
                                      [i \in 1..Len(ret.v) |->
                                         [id |-> ret.v[i].id, name |-> ret.v[i].card.name,
                                          registrationUrl |-> ret.v[i].registrationUrl]]>> >>)
            ELSE ret)
      ELSE IF op = "get"
      THEN (IF ret.t = "error"
            THEN Envelope(TRUE, << <<"Failed to get A2A server details: ", ret.v>> >>)
            ELSE IF ret.t = "undefined"
            THEN Envelope(TRUE, << <<"A2A server with ID ", result.id, " not found.">> >>)
            ELSE IF ret.t = "server"
            THEN Envelope(FALSE, << <<"Details for A2A server ", result.id, ":",
                                      JSONstringify(ret.v)>> >>)
            ELSE ret)
      ELSE IF op = "remove"
      THEN (IF ret.t = "error"
            THEN Envelope(TRUE, << <<"Error processing removal of A2A server: ", ret.v>> >>)
            ELSE IF ret.t = "boolean" /\ ret.v
            THEN Envelope(FALSE, << <<"A2A server with ID ", result.id,
                                      " successfully removed.">> >>)
            ELSE IF ret.t = "boolean"
            THEN Envelope(TRUE, << <<"Failed to remove A2A server with ID ", result.id,
                                     ". It might not exist or an error occurred.">> >>)
            ELSE ret)
      ELSE ret

\* ------------------------------------------------------------------------
\* Start-up and the next-state relation
\* ------------------------------------------------------------------------

\* records an earlier run of the bridge left in the directory
priorNoId == RegisteredServer(DeriveId(cardNoId, 0), "r2", cardNoId, 0)

priorBellaBang == RegisteredServer(DeriveId(cardBellaBang, 0), "r1", cardBellaBang, 0)

DirOf(records) ==
  [k \in {r.id : r \in records} |->
     JsonFile(JSONstringify(CHOOSE r \in records : r.id = k))]

InitialDirs == {DirOf({}), DirOf({priorBellaBang, priorNoId})}

\* start-up over one of the directories dirs, among agents that serve the
\* manifests cards, with a client that knows the ids, in one of the modes
InitOver(dirs, cards, ids, modes) ==
  /\ dir \in dirs
  /\ cache = <<>>
  /\ dynamicToolNames = {}
  /\ mcpTools = <<>>
  /\ calls = [s \in Slots |-> IdleCall]
  /\ last = NoCall
  /\ phase = "boot"
  /\ clock = 0
  /\ uuids = 1
  /\ env \in {[mock |-> m.mock, pipelined |-> m.pipelined, faults |-> m.faults,
                cards |-> cards, ids |-> ids] : m \in modes}
  /\ hist = NoHistory(dir)

Mode(mock, pipelined, faults) == [mock |-> mock, pipelined |-> pipelined, faults |-> faults]

InitWith(mock, pipelined, faults) ==
  InitOver(InitialDirs, Cards, {}, {Mode(mock, pipelined, faults)})

\* MOCK_A2A is not set; the client waits for each answer; the storage works
Init == InitWith(FALSE, FALSE, FALSE)

Next ==
  \/ MainRegisterSkillTools
  \/ \E s \in Slots :
       \/ InitCall(s)
       \/ ReloadCall(s)
       \/ ReloadScanned(s)
       \/ ReloadFileRead(s)
       \/ RegisterCall(s)
       \/ RegisterFetchFailed(s)
       \/ RegisterFetched(s)
       \/ RegisterRead(s)
       \/ RegisterWritten(s)
       \/ GetCall(s)
       \/ GetRead(s)
       \/ ListCall(s)
       \/ RemoveCall(s)
       \/ RemoveAccessed(s)
       \/ RemoveUnlinked(s)
       \/ SendTaskCall(s)
       \/ SkillToolCall(s)
       \/ SendTaskRead(s)
       \/ SendTaskAnswered(s)

Spec == Init /\ [][Next]_vars

\* the client pipelines its requests: handlers interleave at their awaits
InitConc == InitWith(FALSE, TRUE, FALSE)

SpecConc == InitConc /\ [][Next]_vars

\* the bridge with a harness that runs the synthesis pass again
NextSynth == Next \/ RegisterSkillToolsAgain

SpecSynth == Init /\ [][NextSynth]_vars

\* a directory somebody else wrote to: bella.json was renamed to old.json
sOld == <<"o","l","d">>

RenamedDir == [k \in {sOld} |-> JsonFile(JSONstringify(priorBellaBang))]

InitForeign ==
  InitOver({DirOf({}), DirOf({priorBellaBang}), RenamedDir},
           {cardBella, cardLongId, cardNoId},
           {sOld}, {Mode(FALSE, FALSE, FALSE)})

SpecForeign == InitForeign /\ [][Next]_vars

\* agents whose manifests give every kind of id: usable and too long,
\* missing, blank, symbols only, not a string
InitIds ==
  InitOver({DirOf({priorBellaBang})},
           {cardLongId, cardNoId, cardBlankId, cardSymbolId, cardObjectId},
           {}, {Mode(FALSE, FALSE, FALSE)})

SpecIds == InitIds /\ [][Next]_vars

\* two agents: one whose manifest gives an id longer than an id may be, one
\* whose manifest gives none
InitToken ==
  InitOver({DirOf({priorBellaBang})}, {cardLongId, cardNoId}, {},
           {Mode(FALSE, FALSE, FALSE)})

SpecToken == InitToken /\ [][Next]_vars

\* slugify called on its own, as the module exports it: any text of up to
\* MaxSlugInput characters of SlugAlphabet, any maxLength up to MaxSlugBound
\* (0 also stands for the call without maxLength)
SlugAlphabet == {"A", "b", "1", "_", "-", " ", "!"}

SlugInputs == UNION {[1..n -> SlugAlphabet] : n \in 0..MaxSlugInput}

\* the arguments of the call to come
SlugArgs(text, maxLength) ==
  [NoCall EXCEPT !.op = "arguments", !.id = text, !.maxLength = maxLength]

\* slugify(text, maxLength) returns
SlugifyCall ==
  /\ last.op = "arguments"
  /\ last' = [last EXCEPT !.op = "slugify", !.ret = Str(slugify(last.id, last.maxLength))]
  /\ UNCHANGED <<dir, cache, dynamicToolNames, mcpTools, calls, phase, clock, uuids,
                 env, hist>>

InitSlug ==
  /\ dir = DirOf({})
  /\ cache = <<>>
  /\ dynamicToolNames = {}
  /\ mcpTools = <<>>
  /\ calls = [s \in Slots |-> IdleCall]
  /\ last \in {SlugArgs(text, maxLength) : text \in SlugInputs, maxLength \in 0..MaxSlugBound}
  /\ phase = "boot"
  /\ clock = 0
  /\ uuids = 1
  /\ env = [mock |-> FALSE, pipelined |-> FALSE, faults |-> FALSE, cards |-> {}, ids |-> {}]
  /\ hist = NoHistory(dir)

NextSlug == SlugifyCall

SpecSlug == InitSlug /\ [][NextSlug]_vars

\* the bridge started with MOCK_A2A set, or without
InitMock ==
  InitOver({DirOf({}), DirOf({priorBellaBang})}, {cardBella}, {},
           {Mode(TRUE, FALSE, FALSE), Mode(FALSE, FALSE, FALSE)})

SpecMock == InitMock /\ [][Next]_vars

\* a directory with a record file, a file that is not JSON or cannot be
\* read, and a file whose record has an empty id
sBad == <<"b","a","d">>

sNoid == <<"n","o","i","d">>

UnreadableFile == [json |-> FALSE, body |-> <<>>]

MixedDir ==
  [k \in {priorBellaBang.id, sBad, sNoid} |->
     IF k = sBad THEN UnreadableFile
     ELSE IF k = sNoid THEN JsonFile(JSONstringify(RegisteredServer(<<>>, "r2", cardNoId, 0)))
     ELSE JsonFile(JSONstringify(priorBellaBang))]

InitMixed == InitOver({MixedDir}, {cardBella, cardLongId}, {sBad}, {Mode(FALSE, FALSE, FALSE)})

SpecMixed == InitMixed /\ [][Next]_vars

\* a harness that calls init() again before the server starts to serve:
\* fs.mkdir finds the directory, then reloadServers() runs to its first await
InitAgain ==
  /\ phase = "main" /\ clock < MaxOps /\ AllIdle
  /\ cache' = CacheClear(cache)
  /\ calls' = [calls EXCEPT ![1] = Begin("init", "readdir", "", <<>>, <<>>)]
  /\ clock' = clock + 1
  /\ UNCHANGED <<dir, dynamicToolNames, mcpTools, last, phase, uuids, env, hist>>

NextInit == Next \/ InitAgain

InitInit ==
  InitOver({MixedDir, DirOf({priorBellaBang, priorNoId})}, {cardBella}, {},
           {Mode(FALSE, FALSE, FALSE)})

SpecInit == InitInit /\ [][NextInit]_vars

\* a faulty storage under agents of two ids
InitWrite ==
  InitOver({DirOf({priorBellaBang})}, {cardBella, cardLongId}, {},
           {Mode(FALSE, FALSE, TRUE)})

SpecWrite == InitWrite /\ [][Next]_vars

\* the event loop resumes a handler whose storage operation has completed,
\* and storage operations complete; nothing makes the remote agent answer
StorageStep ==
  \E s \in Slots :
    \/ ReloadScanned(s)
    \/ ReloadFileRead(s)
    \/ RegisterRead(s)
    \/ RegisterWritten(s)
    \/ GetRead(s)
    \/ RemoveAccessed(s)
    \/ RemoveUnlinked(s)
    \/ SendTaskRead(s)

InitLive ==
  InitOver({DirOf({priorBellaBang})}, {cardBella}, {}, {Mode(FALSE, FALSE, FALSE)})

SpecLive == InitLive /\ [][Next]_vars /\ WF_vars(StorageStep)

\* agents with and without skills, and the harness that runs the pass again
InitZero ==
  InitOver({DirOf({}), DirOf({priorBellaBang})}, {cardBella, cardNoSkills}, {},
           {Mode(FALSE, FALSE, FALSE)})

SpecZero == InitZero /\ [][NextSynth]_vars

\* two agents whose ids have the same slug and whose urls differ, and the
\* harness that runs the pass again
InitBind ==
  InitOver({DirOf({}), DirOf({priorBellaBang})}, {cardBella, cardBellaBang}, {},
           {Mode(FALSE, FALSE, FALSE)})

SpecBind == InitBind /\ [][NextSynth]_vars

\* pipelined calls, with file reads that complete ahead of their
\* continuations
NextRace == Next \/ \E s \in Slots : ReloadFileOpened(s)

InitRace ==
  InitOver({DirOf({priorBellaBang})}, {cardBella}, {}, {Mode(FALSE, TRUE, FALSE)})

SpecRace == InitRace /\ [][NextRace]_vars

\* registrations that fail: the fetch, the manifest or the storage
InitReject ==
  InitOver({DirOf({priorBellaBang})},
           {cardBella, cardNoName, cardBlankUrl, cardSkillsText}, {},
           {Mode(FALSE, FALSE, TRUE)})

SpecReject == InitReject /\ [][Next]_vars

\* the directory is an ordinary directory: another process puts a record
\* file into it or takes one away while the registry runs
ExternalFile == JsonFile(JSONstringify(priorBellaBang))

ExternalFileAppears ==
  /\ phase = "serving"
  /\ priorBellaBang.id \notin DOMAIN dir
  /\ dir' = WriteFile(dir, priorBellaBang.id, ExternalFile.body)
  /\ UNCHANGED <<cache, dynamicToolNames, mcpTools, calls, last, phase, clock, uuids,
                 env, hist>>

ExternalFileDisappears ==
  /\ phase = "serving"
  /\ \E k \in DOMAIN dir : dir' = Unlink(dir, k)
  /\ UNCHANGED <<cache, dynamicToolNames, mcpTools, calls, last, phase, clock, uuids,
                 env, hist>>

NextExternal == Next \/ ExternalFileAppears \/ ExternalFileDisappears

InitExternal ==
  InitOver({DirOf({}), DirOf({priorBellaBang})}, {cardBella, cardLongId}, {},
           {Mode(FALSE, FALSE, FALSE)})

SpecExternal == InitExternal /\ [][NextExternal]_vars

\* the manifest of an agent as it is served later: the same id and url,
\* another skill list
cardBellaBangLater == [cardBellaBang EXCEPT !.skills = Arr(<<sSpecial>>)]

\* an agent that changes its manifest while the bridge runs, registered
\* before or not, in a directory other processes write to
InitLater ==
  InitOver({DirOf({}), DirOf({priorBellaBang})}, {cardBellaBang, cardBellaBangLater},
           {}, {Mode(FALSE, FALSE, FALSE)})

\* the other processes write between two calls of the client, so that what
\* a call finds stored is what was stored when it was made
BetweenCalls == AllIdle /\ (ExternalFileAppears \/ ExternalFileDisappears)

NextLater == Next \/ BetweenCalls

SpecLater == InitLater /\ [][NextLater]_vars

\* the storage fails now and then: every file operation may throw
InitFaulty ==
  InitOver({DirOf({}), DirOf({priorBellaBang})}, {cardBella, cardNoName}, {},
           {Mode(FALSE, FALSE, TRUE)})

SpecFaulty == InitFaulty /\ [][Next]_vars

\* ------------------------------------------------------------------------
\* Observations shared by the properties
\* ------------------------------------------------------------------------

\* the program serves and no call is in flight
Quiescent == phase = "serving" /\ AllIdle

\* this step returns a call of op to the client
Completes(op) ==
  /\ last'.op = op
  /\ \/ clock' # clock /\ calls' = calls
     \/ \E s \in Slots : calls[s].op = op /\ calls'[s].pc = "idle"

\* the records the files of the directory hold
DiskRecords == {JSONparse(dir[k].body) : k \in DOMAIN dir}

ListedIds(l) == {l[i].id : i \in 1..Len(l)}

\* ------------------------------------------------------------------------
\* C1  identifier uniqueness
\* ------------------------------------------------------------------------

\* C1, as the specification states it: starting from an empty registry,
\* after N successful register calls whose manifests are pairwise distinct,
\* list() returns exactly N records and their ids are pairwise distinct.
C1_IdentifierUniqueness ==
  (hist.pure /\ Quiescent /\ last.op = "list") =>
     /\ Len(last.ret.v) = Cardinality(hist.cards)
     /\ Cardinality(ListedIds(last.ret.v)) = Cardinality(hist.cards)

\* ------------------------------------------------------------------------
\* C2  idempotent registration
\* ------------------------------------------------------------------------

\* this step returns a record from a register that repeats the call before
\* it: the same registrationUrl, the same manifest
RegistersAgain ==
  /\ Completes("register")
  /\ last'.ret.t = "server"
  /\ hist.chain.stage = 1
  /\ hist.chain.url = last'.url
  /\ hist.chain.card = last'.card

\* C2, as the specification states it: register called twice with one
\* registrationUrl and an unchanged manifest returns the same id both times
\* and leaves as many record files after the second call as after the
\* first, whether the manifest supplies an id or omits it.  (Nothing but
\* the second call runs between the two returns, so the files before this
\* step are the files after the first call.)
C2_IdempotentRegistration ==
  [][RegistersAgain =>
       /\ last'.ret.v.id = hist.chain.rec.id
       /\ Cardinality(DOMAIN dir') = Cardinality(DOMAIN dir)]_vars

\* ------------------------------------------------------------------------
\* C3  cache/disk convergence
\* ------------------------------------------------------------------------

\* the cache keys are the ids of the record files and every cached record
\* is what its file holds
Converged ==
  /\ CacheKeys(cache) = {r.id : r \in DiskRecords}
  /\ \A i \in 1..Len(cache) :
       /\ cache[i].key \in DOMAIN dir
       /\ cache[i].value = JSONparse(dir[cache[i].key].body)

\* the call that returned last is a successful register, a remove that
\* returned true, or a reloadServers
MutationReturned ==
  \/ last.op = "register" /\ last.ret.t = "server"
  \/ last.op = "remove" /\ last.ret = Bool(TRUE)
  \/ last.op = "reloadServers"

OnlyReloadsInFlight ==
  /\ \E s \in Slots : calls[s].op = "reloadServers"
  /\ \A s \in Slots : calls[s].op \in {"idle", "reloadServers"}

\* C4, as the specification states it, in the case it singles out: list()
\* called while a reloadServers is in flight, over a directory that holds
\* valid records throughout, returns neither an empty nor a partly refilled
\* cache, but every record of the directory.
C4_ListDuringReload ==
  [][(Completes("list") /\ OnlyReloadsInFlight /\ DOMAIN dir # {}) =>
       Len(last'.ret.v) = Cardinality(DOMAIN dir)]_vars

\* ------------------------------------------------------------------------
\* C5  removal completeness
\* ------------------------------------------------------------------------

\* what a call returns for a key k that remove returned true for, with no
\* register and no reloadServers called since
AfterRemoval(k) ==
  /\ (Completes("get") /\ last'.key = k) => last'.ret = NoServer
  /\ Completes("list") => k \notin ListedIds(last'.ret.v)
  /\ (Completes("remove") /\ last'.key = k) => last'.ret = Bool(FALSE)

ToolNames == {mcpTools[i].name : i \in 1..Len(mcpTools)}

\* the tool names of every skill of a record
SkillToolNames(r) ==
  {makeSkillToolName(r.id, SkillIds(r.card)[i]) : i \in 1..Len(SkillIds(r.card))}

\* C6, as the specification states it: after a successful
\* a2a_register_server call at run time, a tool named
\* slug(agentId)_slug(skillId) exists for every skill of the agent.
C6_DynamicExposure ==
  (Quiescent /\ last.op = "register" /\ last.ret.t = "server") =>
     SkillToolNames(last.ret.v) \subseteq ToolNames

\* ------------------------------------------------------------------------
\* C7  stale endpoints
\* ------------------------------------------------------------------------

\* C7, as the specification states it: once remove(agentId) has returned
\* true, every later call of a skill tool made for that agent returns
\* isError = true and sends no request, whatever the registry went through
\* since, a registration that yields the same id included.
C7_StaleEndpoints ==
  (Quiescent /\ last.op = "skillTool" /\ last.key \in hist.removedEver) =>
     /\ last.ret.v.isError
     /\ last.sent = <<>>

\* ------------------------------------------------------------------------
\* C8  the synthesis pass is idempotent
\* ------------------------------------------------------------------------

\* this step is a pass of registerSkillTools that follows another pass with
\* no call of the client in between
SecondPass ==
  /\ last'.op = "registerSkillTools"
  /\ hist.passes >= 1
  /\ hist'.passes = hist.passes + 1

\* C8: a second pass of registerSkillTools over an unchanged registry
\* returns 0, registers no tool and leaves the set of tool names as it was.
C8_SynthesisIdempotent ==
  [][SecondPass =>
       /\ last'.ret = Count(0)
       /\ dynamicToolNames' = dynamicToolNames
       /\ mcpTools' = mcpTools]_vars

\* a second pass has run over a registry whose agents have skills
C8_Witness ==
  /\ hist.passes >= 2
  /\ last.op = "registerSkillTools" /\ last.ret = Count(0)
  /\ mcpTools # <<>>

\* ------------------------------------------------------------------------
\* C9  one endpoint per (agent, capability) pair
\* ------------------------------------------------------------------------

\* the distinct (agentId, skillId) pairs of the registry
RegistryPairs == Range(SkillPairs(CacheValues(cache)))

\* C9, as the specification states it: after a synthesis pass the number of
\* materialized endpoints equals the number of distinct (agentId, skillId)
\* pairs of the registry.
C9_OneEndpointPerPair ==
  (Quiescent /\ last.op = "registerSkillTools" /\ hist.passes = 1) =>
     Len(mcpTools) = Cardinality(RegistryPairs)

\* ------------------------------------------------------------------------
\* C10  round trip through the directory
\* ------------------------------------------------------------------------

\* register returned a record, reloadServers was called next, and then
\* get(record.id), which has returned
RoundTripDone ==
  /\ Quiescent
  /\ hist.chain.stage = 3
  /\ last.op = "get" /\ last.id = hist.chain.rec.id

IsToolCall(result) == result.op \notin {"none", "init", "registerSkillTools"}

\* text segments plus an isError flag
IsEnvelope(r) ==
  /\ r.t = "envelope"
  /\ r.v.isError \in BOOLEAN
  /\ DOMAIN r.v.content = 1..Len(r.v.content)

DistinctIds(l) == \A i, j \in 1..Len(l) : l[i].id = l[j].id => i = j

\* C12: list() never returns two records whose ids are equal.
C12_NoSharedId == last.op = "list" => DistinctIds(last.ret.v)

\* C12, as it holds: when every file the directory held at start-up was one
\* register wrote, list() never returns two records whose ids are equal.
C12_NoSharedIdOwnFiles == (hist.own /\ last.op = "list") => DistinctIds(last.ret.v)

\* list() returned two records over a directory of the registry's own files
C12_Witness ==
  /\ hist.own /\ DOMAIN dir # {}
  /\ last.op = "list" /\ Len(last.ret.v) >= 2

\* ------------------------------------------------------------------------
\* C13  bounded slug ids
\* ------------------------------------------------------------------------

\* the record r, held under key k, has a slug of at most 20 characters as
\* its id, and k is that id
BoundedSlugId(k, r) ==
  /\ Len(r.id) <= MAX_SERVER_ID_SLUG_LENGTH
  /\ slugify(r.id, MAX_SERVER_ID_SLUG_LENGTH) = r.id
  /\ k = r.id

\* C13: every record in the cache has an id of at most 20 characters that
\* is a slug, and is stored under that id.
C13_BoundedSlugIds == \A i \in 1..Len(cache) : BoundedSlugId(cache[i].key, cache[i].value)

\* C13, as it holds: when every file the directory held at start-up was one
\* register wrote, every record in the cache has an id of at most 20
\* characters that is a slug, and is stored under that id.
C13_BoundedSlugIdsOwnFiles ==
  hist.own => \A i \in 1..Len(cache) : BoundedSlugId(cache[i].key, cache[i].value)

\* the cache holds the record of a manifest whose id had to be cut, and the
\* record of a manifest without id, over the registry's own files
C13_Witness ==
  /\ hist.own
  /\ \E i \in 1..Len(cache) :
        /\ cache[i].value.card = cardLongId
        /\ Len(SlugChain(sLong)) > MAX_SERVER_ID_SLUG_LENGTH
        /\ Len(cache[i].key) = MAX_SERVER_ID_SLUG_LENGTH - 1
  /\ \E i \in 1..Len(cache) : cache[i].value.card = cardNoId

\* ------------------------------------------------------------------------
\* C14  identifier derivation
\* ------------------------------------------------------------------------

\* card.id is a non-blank string whose slug is not empty
HasUsableId(card) ==
  /\ card.id.t = "string"
  /\ trim(card.id.v) # <<>>
  /\ slugify(trim(card.id.v), MAX_SERVER_ID_SLUG_LENGTH) # <<>>

\* id is the first 20 characters of a UUID drawn so far
IsRandomToken(id, drawn) ==
  /\ Len(id) <= MAX_SERVER_ID_SLUG_LENGTH
  /\ \E n \in 0..(drawn - 1) : id = substring0(randomUUID(n), MAX_SERVER_ID_SLUG_LENGTH)

\* C14: a register that returns a record gives it the id
\* slugify(trim(card.id), 20) when card.id is a non-blank string whose slug
\* is not empty, and otherwise a random token of at most 20 characters that
\* no record held before; the name of the card plays no part.
C14_IdentifierDerivation ==
  [][(Completes("register") /\ last'.ret.t = "server") =>
       LET card == last'.card
           id   == last'.ret.v.id
       IN  IF HasUsableId(card)
           THEN id = slugify(trim(card.id.v), MAX_SERVER_ID_SLUG_LENGTH)
           ELSE /\ IsRandomToken(id, uuids')
                /\ id \notin CacheKeys(cache)
                /\ id \notin DOMAIN dir
                /\ id \notin {slugify(trim(card.name.v), MAX_SERVER_ID_SLUG_LENGTH),
                               slugifyTool(card.name.v)}]_vars

\* register returned a record with a random token for a manifest whose id
\* is given but unusable, after the manifest with the long id got its slug
C14_Witness ==
  /\ last.op = "register" /\ last.ret.t = "server"
  /\ ~HasUsableId(last.card) /\ last.card.id.t # "undefined"
  /\ IsRandomToken(last.ret.v.id, uuids)
  /\ \E i \in 1..Len(cache) :
        /\ cache[i].value.card = cardLongId
        /\ cache[i].key = slugify(trim(sLong), MAX_SERVER_ID_SLUG_LENGTH)

\* ------------------------------------------------------------------------
\* C15  endpoint naming
\* ------------------------------------------------------------------------

\* slug(agentId), the separator, slug(capabilityId)
EndpointName(agentId, capabilityId) ==
  slugifyTool(agentId) \o <<"_">> \o slugifyTool(capabilityId)

\* the name the specification gives as its example
BellaSpecialOfDay ==
  <<"b","e","l","l","a","_","s","p","e","c","i","a","l","-","o","f","-","d","a","y">>

\* the pass has just run over the registry as it is
AfterPass == Quiescent /\ last.op = "registerSkillTools"

\* C15: after a synthesis pass, for every record of list() and every skill
\* of it an endpoint named slugify(record.id), "_", slugify(skill.id) exists,
\* and every endpoint bears such a name of the agent it is bound to; the
\* manifest with id "Bella" and skill "special-of-day" has the record id
\* "bella" and the endpoint "bella_special-of-day".
C15_EndpointNaming ==
  AfterPass =>
    /\ \A i \in 1..Len(cache) :
          LET r == cache[i].value
          IN  /\ \A j \in 1..Len(r.card.skills.v) :
                    EndpointName(r.id, r.card.skills.v[j]) \in ToolNames \cap dynamicToolNames
              /\ r.card = cardBella =>
                    (r.id = <<"b","e","l","l","a">> /\ BellaSpecialOfDay \in ToolNames)
    /\ \A t \in 1..Len(mcpTools) :
          \E skillId \in {sSpecial, sFoo, sfoo} :
            mcpTools[t].name = EndpointName(mcpTools[t].serverId, skillId)

\* a pass has run after the manifest with id "Bella" was registered
C15_Witness ==
  /\ AfterPass /\ hist.passes >= 1
  /\ \E i \in 1..Len(cache) : cache[i].value.card = cardBella
  /\ \E t \in 1..Len(mcpTools) :
        mcpTools[t].name = BellaSpecialOfDay /\ mcpTools[t].serverId = <<"b","e","l","l","a">>

\* ------------------------------------------------------------------------
\* C16  slug length bound
\* ------------------------------------------------------------------------

\* C16, as the specification states it: for every text and every bound
\* maxLength, 0 included, slugify(text, maxLength) is at most maxLength
\* characters long, and a second call with the same arguments returns the
\* same string.
C16_SlugLengthBound ==
  last.op = "slugify" =>
    /\ Len(last.ret.v) <= last.maxLength
    /\ slugify(last.id, last.maxLength) = last.ret.v

\* ------------------------------------------------------------------------
\* C17  slug form
\* ------------------------------------------------------------------------

\* only characters of [a-z0-9_-], no two adjacent hyphens, no hyphen at
\* either end
SlugFormed(slug) ==
  /\ \A i \in 1..Len(slug) : slug[i] \in Range(LowerChars) \cup DigitChars \cup {"_", "-"}
  /\ \A i \in 1..(Len(slug) - 1) : ~(slug[i] = "-" /\ slug[i + 1] = "-")
  /\ slug # <<>> => (slug[1] # "-" /\ slug[Len(slug)] # "-")

\* C17: the output of slugify has only characters of [a-z0-9_-], no two
\* adjacent hyphens and no hyphen at either end, and a text with no
\* character of [a-z0-9_-] yields the empty string.
C17_SlugForm ==
  last.op = "slugify" =>
    /\ SlugFormed(last.ret.v)
    /\ AllIn(last.id, SlugAlphabet \ (Range(LowerChars) \cup DigitChars \cup {"_", "-"}))
         => last.ret.v = <<>>

\* C17, as it holds: the output of slugify has only characters of
\* [a-z0-9_-], no two adjacent hyphens and no hyphen at either end, and a
\* text with no letter, digit or underscore yields the empty string.
C17_SlugFormOfWordChars ==
  last.op = "slugify" =>
    /\ SlugFormed(last.ret.v)
    /\ AllIn(last.id, SlugAlphabet \ WordChars) => last.ret.v = <<>>

\* slugify cut a slug right after a hyphen and returned it without the
\* hyphen
C17_Witness ==
  /\ last.op = "slugify"
  /\ last.maxLength > 0
  /\ Len(SlugChain(last.id)) > last.maxLength
  /\ SlugChain(last.id)[last.maxLength] = "-"
  /\ Len(last.ret.v) = last.maxLength - 1

\* ------------------------------------------------------------------------
\* C18  application-level failure
\* ------------------------------------------------------------------------

\* the call that has just returned was bridged to a remote agent, whose
\* answer was of this kind
Answered(kind) ==
  /\ last.op \in {"a2a_send_task", "skillTool"}
  /\ last.sent # <<>>
  /\ last.answer.kind = kind

\* C18: when the remote agent answers tasks/send with a response that
\* carries an error object, a2a_send_task and every skill tool return
\* isError = true with one text segment, the message of that error.
C18_ApplicationFailure ==
  Answered("rpcError") =>
    /\ last.ret.v.isError
    /\ last.ret.v.content = <<last.answer.message>>

\* a skill tool returned the error message of the remote agent
C18_Witness ==
  /\ Answered("rpcError") /\ last.op = "skillTool"
  /\ last.answer.message = "Task Not Found"
  /\ last.ret = Envelope(TRUE, <<"Task Not Found">>)

\* ------------------------------------------------------------------------
\* C19  unknown agent
\* ------------------------------------------------------------------------

\* the a2a_send_task call that has just returned named a server that is
\* neither in the cache nor in the directory, so that get returned undefined
UnknownAgentCalled ==
  /\ last.op = "a2a_send_task"
  /\ last.key \notin CacheKeys(cache)
  /\ last.key \notin DOMAIN dir

\* C19: a2a_send_task for a serverId that get does not find returns
\* isError = true with one text, in which that serverId stands between two
\* pieces of fixed wording, and no request is sent, with MOCK_A2A set or not.
C19_UnknownAgent ==
  UnknownAgentCalled =>
    /\ last.ret.v.isError
    /\ Len(last.ret.v.content) = 1
    /\ Len(last.ret.v.content[1]) = 3
    /\ last.ret.v.content[1][2] = last.id
    /\ last.sent = <<>>
    /\ last.answer = NoAnswer

\* in mock mode a2a_send_task was called with an id nobody registered
C19_Witness ==
  /\ env.mock
  /\ UnknownAgentCalled
  /\ last.id = sBella
  /\ last.ret = UnknownServer(sBella)

\* ------------------------------------------------------------------------
\* C20  transport failure classification
\* ------------------------------------------------------------------------

\* C20, as the specification states it: when the request to the remote
\* agent fails with a transport error that carries a string code,
\* a2a_send_task and every skill tool return isError = true with the text
\* "A2A fetch failed. Code: <code>".
C20_TransportFailure ==
  (Answered("fetchError") /\ last.answer.code # "") =>
    /\ last.ret.v.isError
    /\ last.ret.v.content = <<"A2A fetch failed. Code: " \o last.answer.code>>

\* ------------------------------------------------------------------------
\* C21  mock mode
\* ------------------------------------------------------------------------

\* the agent the call that returns in this step was made for is registered
ForRegisteredAgent == last'.key \in CacheKeys(cache') \/ last'.key \in DOMAIN dir'

\* C21, as the specification states it: with MOCK_A2A set, the call of a
\* skill tool of a registered agent sends no request and returns
\* isError = false, and its text segments are those the call of the same
\* tool before it returned.
C21_MockMode ==
  [][(env.mock /\ Completes("skillTool") /\ ForRegisteredAgent) =>
       /\ ~last'.ret.v.isError
       /\ last'.sent = <<>>
       /\ (last.op = "skillTool" /\ last.tool = last'.tool /\ ~last.ret.v.isError)
            => last'.ret.v.content = last.ret.v.content]_vars

\* ------------------------------------------------------------------------
\* C22  successful reply translation
\* ------------------------------------------------------------------------

\* C22: when the result of the remote agent has status.message.parts, a
\* sequence of text parts, a2a_send_task and every skill tool return
\* isError = false with one text segment per part, the text of that part,
\* in the order of the parts.
C22_ReplyTranslation ==
  Answered("parts") =>
    /\ ~last.ret.v.isError
    /\ Len(last.ret.v.content) = Len(last.answer.parts)
    /\ \A i \in 1..Len(last.answer.parts) :
          last.ret.v.content[i] = last.answer.parts[i].text

\* a skill tool returned the two parts of the reply of the remote agent
C22_Witness ==
  /\ Answered("parts") /\ last.op = "skillTool"
  /\ Len(last.answer.parts) = 2
  /\ last.answer.parts[1].text # last.answer.parts[2].text
  /\ last.ret.v.content = <<last.answer.parts[1].text, last.answer.parts[2].text>>

\* ------------------------------------------------------------------------
\* C23  reload isolation and count
\* ------------------------------------------------------------------------

\* the files of the directory that hold a record with a non-empty id
ValidFiles == {k \in DOMAIN dir : dir[k].json /\ JSONparse(dir[k].body).id # <<>>}

\* the entries of a cache, in no order
CacheEntries(c) == {c[i] : i \in 1..Len(c)}

ScanFailed == Quiescent /\ last.op = "reloadServers" /\ last.logged = ReloadFailed

\* C24: when the storage directory cannot be scanned, reloadServers does not
\* throw, returns count 0 and leaves the cache empty, whatever the cache
\* held before.
C24_ScanFailure == ScanFailed => (last.ret = Count(0) /\ cache = <<>>)

\* the scan failed in a reloadServers called right after a register that
\* had stored a record, over a directory that holds its file
C24_Witness ==
  /\ ScanFailed
  /\ hist.chain.stage = 2
  /\ hist.chain.rec.id \in DOMAIN dir
  /\ cache = <<>>

\* ------------------------------------------------------------------------
\* C25  get read-through
\* ------------------------------------------------------------------------

\* a readable record file of name k is in the directory
ReadableFile(k) == k \in DOMAIN dir /\ dir[k].json

\* C25: get(id) looks up slugify(id, 20).  On a cache hit it returns the
\* cached record without reading the disk (it returns in the step that
\* called it, the cache as it was).  On a miss with a readable file
\* <slug>.json it returns the record of that file and the cache then holds
\* it under the slug, whatever id the record has inside.  On a miss with no
\* readable file it returns absent and the cache is as it was.  The
\* directory is never changed.
C25_GetReadThrough ==
  [][Completes("get") =>
       LET slug == slugify(last'.id, MAX_SERVER_ID_SLUG_LENGTH)
       IN  /\ last'.key = slug
           /\ dir' = dir
           /\ IF CacheHas(cache, slug)
              THEN /\ last'.ret = CacheGet(cache, slug)
                   /\ cache' = cache
                   /\ calls' = calls
              ELSE IF ReadableFile(slug)
              THEN /\ last'.ret = Server(JSONparse(dir[slug].body))
                   /\ CacheGet(cache', slug) = last'.ret
                   /\ \A k \in CacheKeys(cache) : CacheGet(cache', k) = CacheGet(cache, k)
                   /\ CacheKeys(cache') = CacheKeys(cache) \cup {slug}
              ELSE /\ last'.ret = NoServer
                   /\ cache' = cache]_vars

\* the first call after start-up was a get of a file name under which
\* nothing was cached; it returned the record of that file, whose id is
\* another, and the cache holds it under the file name
C25_Witness ==
  /\ Quiescent /\ clock = 1
  /\ last.op = "get" /\ last.key = sOld
  /\ last.ret.t = "server" /\ last.ret.v.id # sOld
  /\ CacheGet(cache, sOld) = last.ret
  /\ CacheHas(cache, last.ret.v.id)

\* ------------------------------------------------------------------------
\* C26  list is a pure cache read
\* ------------------------------------------------------------------------

\* a file was put into the directory or taken out of it by somebody else:
\* no call of the registry moved
ExternalChange == dir' # dir /\ calls' = calls /\ last' = last

\* C26: list() returns exactly the records in the cache and changes neither
\* the cache nor the directory; a record file that appears in or disappears
\* from the directory behind the registry's back changes neither the cache
\* nor what the next list() returns: two list() calls with nothing but such
\* changes between them return the same records.
C26_ListPureCacheRead ==
  [][/\ Completes("list") =>
         /\ last'.ret = List(CacheValues(cache))
         /\ cache' = cache
         /\ dir' = dir
         /\ last.op = "list" => last'.ret = last.ret
     /\ ExternalChange => cache' = cache]_vars

\* list() returned the cache, which holds a record whose file is gone, over
\* a directory that holds a file the cache does not know
C26_Witness ==
  /\ Quiescent /\ last.op = "list"
  /\ last.ret = List(CacheValues(cache))
  /\ \E k \in CacheKeys(cache) : k \notin DOMAIN dir
  /\ \E k \in DOMAIN dir : k \notin CacheKeys(cache)

\* ------------------------------------------------------------------------
\* C27  remove result
\* ------------------------------------------------------------------------

RegisterStep ==
  \E s \in Slots : calls[s].op = "register" \/ calls'[s].op = "register"

\* the failures register reports: of the fetch, of the validation, of the
\* write
RegisterFailures ==
  FetchFailures \cup Range(requiredFields) \cup {"skills-not-array", "write"}

StoredUnder(id) ==
  {CacheGet(cache, id), ReadServerFile(dir, id, TRUE)} \ {NoServer}

\* the stored record e has the registration URL and the manifest url of the
\* request
BothUrlsMatch(e, registrationUrl, card) ==
  e.v.registrationUrl = registrationUrl /\ e.v.card.url = card.url

GetOver(c, d, k) == IF CacheHas(c, k) THEN CacheGet(c, k) ELSE ReadServerFile(d, k, TRUE)

\* the keys under which something is stored
StoredKeys == CacheKeys(cache) \cup DOMAIN dir

\* this step changes the id or the addedAt of the record get(k) returns
Restamped(k) ==
  LET before == GetOver(cache, dir, k)
      after  == GetOver(cache', dir', k)
  IN  /\ before.t = "server" /\ after.t = "server"
      /\ before.v.id # after.v.id \/ before.v.addedAt # after.v.addedAt

\* this step is the return of a register that stored a new record under k,
\* the record stored before having another registrationUrl or manifest url
Replaced(k) ==
  /\ Completes("register") /\ last'.key = k
  /\ last'.ret = GetOver(cache', dir', k)
  /\ ~BothUrlsMatch(GetOver(cache, dir, k), last'.url, last'.card)

InitReturns == calls[1].op = "init" /\ calls'[1].pc = "idle"

\* the records of the valid files of directory d, each under its id
ValidEntries(d) ==
  {[key |-> JSONparse(d[k].body).id, value |-> JSONparse(d[k].body)] :
     k \in {f \in DOMAIN d : d[f].json /\ JSONparse(d[f].body).id # <<>>}}

Moves(s) == calls'[s] # calls[s]

\* this step begins a reloadServers, on its own or inside init
ReloadBegins ==
  \E s \in Slots : calls[s].pc = "idle" /\ calls'[s].op \in {"reloadServers", "init"}

\* the keys whose cache entry this step changes
ChangedKeys ==
  {k \in CacheKeys(cache) \cup CacheKeys(cache') : CacheGet(cache', k) # CacheGet(cache, k)}

\* C32: a step of register that puts an entry into the cache leaves the
\* file of that id holding the same record, and a register that returns a
\* record returns what file and cache hold; a step of remove that comes
\* back from fs.unlink deletes the cache entry only if the file is gone,
\* and remove returns true from it only with file and entry both gone; a
\* step that does not begin a reloadServers changes the entry of one key
\* at most.
C32_WriteThrough ==
  [][/\ \A s \in Slots :
          (calls[s].op = "register" /\ Moves(s) /\ cache' # cache) =>
             /\ CacheHas(cache', calls[s].key)
             /\ ReadServerFile(dir', calls[s].key, TRUE) = CacheGet(cache', calls[s].key)
     /\ (Completes("register") /\ last'.ret.t = "server") =>
          /\ ReadServerFile(dir', last'.key, TRUE) = last'.ret
          /\ CacheGet(cache', last'.key) = last'.ret
     /\ \A s \in Slots :
          (calls[s].op = "remove" /\ calls[s].pc = "unlink" /\ Moves(s)) =>
             /\ cache' # cache => calls[s].key \notin DOMAIN dir'
             /\ last'.ret = Bool(TRUE) =>
                  /\ calls[s].key \notin DOMAIN dir'
                  /\ ~CacheHas(cache', calls[s].key)
     /\ ~ReloadBegins => Cardinality(ChangedKeys) <= 1]_vars

\* over a storage that fails now and then, a remove had returned true and
\* the register after it returned a new record, which file and cache hold
C32_Witness ==
  /\ Quiescent /\ env.faults /\ hist.removedEver # {}
  /\ last.op = "register" /\ last.ret.t = "server" /\ last.ret.v.addedAt = clock
  /\ ReadServerFile(dir, last.key, TRUE) = last.ret
  /\ CacheGet(cache, last.key) = last.ret

\* ------------------------------------------------------------------------
\* C33  no silent hang
\* ------------------------------------------------------------------------

\* slot s holds an invocation of a2a_send_task or of a skill tool that has
\* not returned
Pending(s) == calls[s].op \in {"a2a_send_task", "skillTool"} /\ calls[s].pc # "idle"

\* the remote agent answers, or the transport gives up
TransportAnswers == \A s \in Slots : WF_vars(SendTaskAnswered(s))

PassStep == last'.op = "registerSkillTools" /\ hist'.passes = hist.passes + 1

\* the tools this step registers
NewTools == {mcpTools'[t] : t \in (Len(mcpTools) + 1)..Len(mcpTools')}

\* C34: a manifest whose skill list is empty registers (among agents whose
\* manifests are valid but for that, register fails only when the fetch
\* fails, and it returns the record with the empty list), and a synthesis
\* pass registers no endpoint for a record without skills, while every
\* skill of every other record of the registry has its endpoint after the
\* pass.
C34_ZeroCapabilities ==
  [][/\ Completes("register") =>
          (last'.ret.t = "server" \/ last'.ret = Threw("network") \/ last'.ret = Threw("status"))
     /\ (Completes("register") /\ last'.card = cardNoSkills) =>
          /\ last'.ret.t = "server"
          /\ last'.ret.v.card.skills = Arr(<<>>)
          /\ CacheGet(cache', last'.key) = last'.ret
     /\ PassStep =>
          \A i \in 1..Len(cache) :
            LET r == cache[i].value
            IN  IF r.card.skills.v = <<>>
                THEN \A tool \in NewTools : tool.serverId # r.id
                ELSE \A j \in 1..Len(r.card.skills.v) :
                       /\ EndpointName(r.id, r.card.skills.v[j]) \in dynamicToolNames'
                       /\ \E t \in 1..Len(mcpTools') :
                            /\ mcpTools'[t].name = EndpointName(r.id, r.card.skills.v[j])
                            /\ mcpTools'[t].serverId = r.id]_vars

\* a pass has run over a registry that holds an agent without skills,
\* registered while the bridge served, and an agent with skills: the one
\* has no endpoint, the other has
C34_Witness ==
  /\ AfterPass /\ hist.passes >= 1 /\ clock >= 2
  /\ \E i, j \in 1..Len(cache) :
        /\ cache[i].value.card = cardNoSkills
        /\ cache[i].value.addedAt >= 1
        /\ \A t \in 1..Len(mcpTools) : mcpTools[t].serverId # cache[i].value.id
        /\ cache[j].value.card.skills.v # <<>>
        /\ \E t \in 1..Len(mcpTools) : mcpTools[t].serverId = cache[j].value.id

\* ------------------------------------------------------------------------
\* C35  convergence under interleaving
\* ------------------------------------------------------------------------

\* the client has made two calls, a remove that returned true and a
\* reloadServers that returned last, and both have completed
ReloadAndRemoveDone ==
  /\ Quiescent /\ clock = 2
  /\ last.op = "reloadServers"
  /\ hist.removedEver # {}

\* C35, as the specification states it: for every interleaving of a
\* reloadServers call with a remove call, once both calls have completed the
\* cache holds a record under an id if and only if a record file for that
\* id exists; a remove that returned true never leaves its id in the cache.
C35_ConvergenceUnderInterleaving ==
  ReloadAndRemoveDone =>
    /\ CacheKeys(cache) = DOMAIN dir
    /\ \A k \in hist.removedEver : ~CacheHas(cache, k)


\* ---------------------------------------------------------------------------
\* C36  Register then get.  Every id a successful register call returns is
\* unchanged by slugify(id, 20), whether it is the slug of the card's id or
\* a random token; the get call made right after a successful register with
\* the returned id returns the record register returned; and a get of that
\* id made after a reloadServers returns a record whose registrationUrl and
\* card are those of the record register returned.
RegisterThenGet ==
  /\ Completes("get")
  /\ last.op = "register" /\ last.ret.t = "server"
  /\ last'.id = last.ret.v.id

FoundRegistered ==
  /\ Completes("register") /\ last'.ret.t = "server"
  /\ \E e \in StoredUnder(last'.key) : BothUrlsMatch(e, last'.url, last'.card)

C37_ReRegistrationNoWrite ==
  [][FoundRegistered =>
       LET id == last'.key
       IN  /\ dir' = dir
           /\ last'.ret \in StoredUnder(id)
           /\ BothUrlsMatch(last'.ret, last'.url, last'.card)
           /\ GetOver(cache', dir', id) = last'.ret
           /\ \/ cache' = cache
              \/ /\ last'.ret = ReadServerFile(dir, id, TRUE)
                 /\ cache' = CacheSet(cache, id, ReadServerFile(dir, id, TRUE).v)
           /\ UNCHANGED <<dynamicToolNames, mcpTools>>]_vars

\* a register whose fetch returned another skill list than the stored
\* record has returned the record stored before, which the cache got from
\* the file
C37_Witness ==
  /\ Quiescent
  /\ last.op = "register" /\ last.ret.t = "server"
  /\ last.card.skills # last.ret.v.card.skills
  /\ last.ret.v.addedAt < clock
  /\ hist.pure /\ clock = 1
  /\ cache = <<[key |-> last.key, value |-> last.ret.v]>>
  /\ dir[last.key] = JsonFile(JSONstringify(last.ret.v))


\* ---------------------------------------------------------------------------
\* C38  The endpoint set is monotone and late-bound.  No step takes a name
\* out of dynamicToolNames or a tool away from the MCP server; the number a
\* registerSkillTools pass returns is the number of names it added; and a
\* skill tool that is called sends to the card.url of the record stored
\* under its server id when it is called, and answers isError = true
\* without sending when no record is stored under that id.
ToolsKept ==
  /\ dynamicToolNames \subseteq dynamicToolNames'
  /\ Len(mcpTools) <= Len(mcpTools')
  /\ \A t \in 1..Len(mcpTools) : mcpTools'[t] = mcpTools[t]

PassCounts ==
  PassStep => last'.ret = Count(Cardinality(dynamicToolNames' \ dynamicToolNames))

LateBound ==
  Completes("skillTool") =>
    LET stored == GetOver(cache, dir, last'.key)
    IN  IF stored.t = "server"
        THEN last'.sent = <<stored.v.card.url>>
        ELSE /\ last'.sent = <<>>
             /\ last'.ret = UnknownServer(last'.id)
             /\ last'.ret.v.isError

StepOf(op) ==
  \/ \E s \in Slots : calls[s].op = op /\ calls[s].pc # "idle"
  \/ \E s \in Slots : calls[s].pc = "idle" /\ calls'[s].op = op /\ calls'[s].pc # "idle"
  \/ Completes(op)

Succeeds(op) ==
  /\ Completes(op)
  /\ \/ op = "get" /\ last'.ret.t = "server"
     \/ op = "remove" /\ last'.ret = Bool(TRUE)

C39_FailureLeavesUntouched ==
  [][\A op \in {"get", "remove"} :
       (StepOf(op) /\ ~Succeeds(op)) => UNCHANGED <<cache, dir>>]_vars

\* a remove of a record that is cached and on disk has returned false, the
\* deletion of its file having failed, and a get of it returns it still
C39_Witness ==
  /\ Quiescent
  /\ last.op = "remove" /\ last.ret = Bool(FALSE)
  /\ CacheHas(cache, last.key)
  /\ last.key \in DOMAIN dir
  /\ ReadServerFile(dir, last.key, TRUE) = CacheGet(cache, last.key)

====
